---- MODULE Spec2Model ----
(***************************************************************************)
(* The adapter servers of mcp-servers as state machines.  One server       *)
(* process (adapter, env) handles one tool invocation: an action is one    *)
(* tool handler, run from its first statement to its return.  What the     *)
(* upstream API answers is an input of the action; the requests the        *)
(* handler issued, in order, and the string it returned are the state.     *)
(***************************************************************************)
EXTENDS Integers, Sequences, FiniteSets, TLC

\* ------------------------------------------------------------------ bounds
\* Longest item list the upstream returns.
MaxItems == 4
\* Longest list of places, reviews or routes the Google APIs return.
MaxPlaces == 2
\* Number of years, from 2023 on, whose every day the clock is read on.
MaxYears == 2

\* ------------------------------------------------------- program constants
CHARACTER_LIMIT == 25000

VARIABLES
  adapter,       \* the server process: "asana", "gcal", "places", "perplexity"
  env,           \* names of the environment variables set in the process
  pc,            \* "idle" before the invocation, "done" after it
  tool,          \* name of the invoked tool
  params,        \* the validated parameter object of the invocation
  now,           \* what datetime.now(UTC) returned in the invocation
  upstream,      \* the upstream answers the invocation consumed, in order
  requests,      \* the outbound HTTP requests the invocation issued, in order
  result,        \* the string the tool returned
  escaped,       \* the exception that left the tool body uncaught, if any
  caught,        \* the exception the tool's except clause caught, if any
  formatterRuns, \* len() of what each run of the list formatter returned, in order
                 \* (0 for a run that raised)
  calls          \* the invocations that run side by side in the process, each
                 \* with its own locals, when they are followed request by request

vars == <<adapter, env, pc, tool, params, now, upstream, requests, result,
          escaped, caught, formatterRuns, calls>>

\* ------------------------------------------------------------ Python values
None == "<None>"
\* `if not v` for an Optional[str]
Falsy(v) == v = None \/ v = ""

Max(a, b) == IF a >= b THEN a ELSE b

\* len(str(n)) for a count
Digits(n) == IF n < 10 THEN 1 ELSE IF n < 100 THEN 2 ELSE IF n < 1000 THEN 3 ELSE IF n < 10000 THEN 4 ELSE 5

RECURSIVE SumOver(_, _)
\* sum of field f of the records of sequence s
SumOver(s, f) == IF s = <<>> THEN 0 ELSE Head(s)[f] + SumOver(Tail(s), f)

\* ---------------------------------------------------------------- strings
\* An f-string: its template, {} for each interpolation, and the values.
Msg(tmpl, args) == [kind |-> "msg", tmpl |-> tmpl, args |-> args]
NoResult == [kind |-> "none"]

\* -------------------------------------------------------------- exceptions
Exc(cls, text) == [cls |-> cls, status |-> 0, body |-> "", text |-> text]
StatusError(code, body) ==
  [cls |-> "HTTPStatusError", status |-> code, body |-> body, text |-> "status error"]
NoExc == [cls |-> "none", status |-> 0, body |-> "", text |-> ""]

\* The direct base class of each exception class the handlers can meet.
Base(cls) ==
  CASE cls = "JSONDecodeError" -> "ValueError"
    [] cls = "ValueError" -> "Exception"
    [] cls = "AttributeError" -> "Exception"
    [] cls = "KeyError" -> "LookupError"
    [] cls = "IndexError" -> "LookupError"
    [] cls = "LookupError" -> "Exception"
    [] cls = "TypeError" -> "Exception"
    [] cls = "HTTPStatusError" -> "HTTPError"
    [] cls = "ReadTimeout" -> "TimeoutException"
    [] cls = "ConnectTimeout" -> "TimeoutException"
    [] cls = "TimeoutException" -> "TransportError"
    [] cls = "ConnectError" -> "NetworkError"
    [] cls = "NetworkError" -> "TransportError"
    [] cls = "TransportError" -> "RequestError"
    [] cls = "RequestError" -> "HTTPError"
    [] cls = "HTTPError" -> "Exception"
    [] cls = "Exception" -> "BaseException"
    [] cls = "CancelledError" -> "BaseException"
    [] OTHER -> "BaseException"

RECURSIVE IsSubclass(_, _)
IsSubclass(c, d) ==
  IF c = d THEN TRUE
  ELSE IF c = "BaseException" THEN FALSE
  ELSE IsSubclass(Base(c), d)

isinstance(e, cls) == IsSubclass(e.cls, cls)

\* ------------------------------------------------------- upstream answers
\* What the network and the upstream API do with one request.
ErrorStatuses == {400, 401, 403, 404, 429, 500}
\* an error body that is JSON with error.message, as the Google and Perplexity
\* APIs send it
JsonErrorBody == "{\"error\": {\"message\": \"bad field\"}}"
ErrorBodies == {"", "upstream error text", JsonErrorBody}

\* the request never completes with a response: the transport fails, or the
\* task awaiting the response is cancelled
TransportFailures ==
  { Exc("ReadTimeout", "read timed out"),
    Exc("ConnectTimeout", "connect timed out"),
    Exc("ConnectError", "connection refused"),
    Exc("CancelledError", "") }

Failed(e) == [k |-> "exc", exc |-> e, status |-> 0, body |-> "", shape |-> "none", items |-> <<>>]
Status(code, body) ==
  [k |-> "status", exc |-> NoExc, status |-> code, body |-> body, shape |-> "none", items |-> <<>>]
\* a 2xx response; shape tells what its body decodes to
Ok(shape, items) ==
  [k |-> "ok", exc |-> NoExc, status |-> 200, body |-> "", shape |-> shape, items |-> items]

FailureAnswers ==
  {Failed(e) : e \in TransportFailures}
    \cup {Status(c, b) : c \in ErrorStatuses, b \in ErrorBodies}

\* What a decoded JSON body is to the handlers: a list, or a dict that may
\* hold an item list under one key.
PyList(items) == [type |-> "list", key |-> "none", items |-> items]
PyDict(key, items) == [type |-> "dict", key |-> key, items |-> items]
NoData == [type |-> "none", key |-> "none", items |-> <<>>]

\* response.json()
Decoded(ans, listKey) ==
  CASE ans.shape = "list_in_envelope" -> PyDict(listKey, ans.items)
    [] ans.shape = "object" -> PyDict("none", <<>>)
    [] ans.shape = "bare_list" -> PyList(ans.items)
    [] OTHER -> NoData

\* dict.get(key, []) on a decoded dict
DictGetList(d, key) == IF d.key = key THEN d.items ELSE <<>>

\* The outcome of a call: it returned data or raised exc, having sent the
\* requests `sent` and consumed the upstream answers `used`.
Returned(data, sent, used) ==
  [k |-> "ret", data |-> data, exc |-> NoExc, sent |-> sent, used |-> used]
Raised(e, sent, used) ==
  [k |-> "raise", data |-> NoData, exc |-> e, sent |-> sent, used |-> used]

\* The outcome of the try block of a tool: the string it returned or the
\* exception it raised, and the lengths the runs of the list formatter returned.
Ret(msg, sent, used, runs) ==
  [k |-> "ret", data |-> msg, exc |-> NoExc, sent |-> sent, used |-> used, runs |-> runs]
Throw(e, sent, used, runs) ==
  [k |-> "raise", data |-> NoResult, exc |-> e, sent |-> sent, used |-> used, runs |-> runs]

\* The end of a tool invocation: the string returned, or the exception that
\* left the tool body.
Done(res, sent, used, runs) ==
  [result |-> res, escaped |-> NoExc, caught |-> NoExc, sent |-> sent, used |-> used,
   runs |-> runs]
Caught(e, res, sent, used, runs) ==
  [result |-> res, escaped |-> NoExc, caught |-> e, sent |-> sent, used |-> used,
   runs |-> runs]
Escaped(e, sent, used, runs) ==
  [result |-> NoResult, escaped |-> e, caught |-> NoExc, sent |-> sent, used |-> used,
   runs |-> runs]

\* An outbound request: body is the set of keys of its JSON body, window the
\* time bounds it carries as query parameters, if any.
Request(method, endpoint, body) ==
  [method |-> method, endpoint |-> endpoint, body |-> body, window |-> <<>>]
WindowRequest(method, endpoint, timeMin, timeMax) ==
  [method |-> method, endpoint |-> endpoint, body |-> {}, window |-> <<timeMin, timeMax>>]

\* ==================================================================== Asana
asana_get_api_headers(e) ==
  IF "ASANA_ACCESS_TOKEN" \notin e
  THEN Raised(Exc("ValueError",
                  "ASANA_ACCESS_TOKEN environment variable not set. Please set it with a valid Personal Access Token."),
              <<>>, <<>>)
  ELSE Returned(NoData, <<>>, <<>>)

\* a request helper that builds the headers only after the request is sent
asana_make_api_request_late_headers(e, req, ans) ==
  IF ans.k = "exc" THEN Raised(ans.exc, <<req>>, <<ans>>)
  ELSE IF "ASANA_ACCESS_TOKEN" \notin e
    THEN Raised(Exc("ValueError",
                    "ASANA_ACCESS_TOKEN environment variable not set. Please set it with a valid Personal Access Token."),
                <<req>>, <<ans>>)
  ELSE IF ans.k = "status" THEN Raised(StatusError(ans.status, ans.body), <<req>>, <<ans>>)
  ELSE Returned(PyDict("none", <<>>), <<req>>, <<ans>>)

\* _make_api_request: the headers are built while the arguments of
\* client.request are evaluated, so a missing token raises before anything
\* is sent; raise_for_status and response.json() raise after the answer.
asana_make_api_request(e, req, ans) ==
  LET h == asana_get_api_headers(e) IN
  IF h.k = "raise" THEN h
  ELSE IF ans.k = "exc" THEN Raised(ans.exc, <<req>>, <<ans>>)
  ELSE IF ans.k = "status" THEN Raised(StatusError(ans.status, ans.body), <<req>>, <<ans>>)
  ELSE IF ans.shape = "not_json"
    THEN Raised(Exc("JSONDecodeError", "Expecting value: line 1 column 1 (char 0)"), <<req>>, <<ans>>)
  ELSE IF ans.shape = "bare_list"
    THEN Raised(Exc("AttributeError", "'list' object has no attribute 'get'"), <<req>>, <<ans>>)
  ELSE IF ans.shape = "list_in_envelope" THEN Returned(PyList(ans.items), <<req>>, <<ans>>)
  ELSE Returned(PyDict("none", <<>>), <<req>>, <<ans>>)

\* an error translator without the ValueError test
asana_handle_api_error_no_config(e) ==
  IF isinstance(e, "HTTPStatusError") THEN
    IF e.status = 400 THEN Msg("Error: Bad request. {}", <<e.body>>)
    ELSE IF e.status = 401 THEN Msg("Error: Authentication failed. Please check your access token.", <<>>)
    ELSE IF e.status = 403 THEN Msg("Error: Permission denied. You don't have access to this resource.", <<>>)
    ELSE IF e.status = 404 THEN Msg("Error: Resource not found. Please check the ID.", <<>>)
    ELSE IF e.status = 429 THEN Msg("Error: Rate limit exceeded. Please wait before making more requests.", <<>>)
    ELSE Msg("Error: API request failed with status {}: {}", <<ToString(e.status), e.body>>)
  ELSE IF isinstance(e, "TimeoutException") THEN Msg("Error: Request timed out. Please try again.", <<>>)
  ELSE Msg("Error: Unexpected error occurred: {}: {}", <<e.cls, e.text>>)

asana_handle_api_error(e) ==
  IF isinstance(e, "ValueError") THEN Msg("Configuration Error: {}", <<e.text>>)
  ELSE IF isinstance(e, "HTTPStatusError") THEN
    IF e.status = 400 THEN Msg("Error: Bad request. {}", <<e.body>>)
    ELSE IF e.status = 401 THEN Msg("Error: Authentication failed. Please check your access token.", <<>>)
    ELSE IF e.status = 403 THEN Msg("Error: Permission denied. You don't have access to this resource.", <<>>)
    ELSE IF e.status = 404 THEN Msg("Error: Resource not found. Please check the ID.", <<>>)
    ELSE IF e.status = 429 THEN Msg("Error: Rate limit exceeded. Please wait before making more requests.", <<>>)
    ELSE Msg("Error: API request failed with status {}: {}", <<ToString(e.status), e.body>>)
  ELSE IF isinstance(e, "TimeoutException") THEN Msg("Error: Request timed out. Please try again.", <<>>)
  ELSE Msg("Error: Unexpected error occurred: {}: {}", <<e.cls, e.text>>)

\* try: <body> except Exception as e: return _handle_api_error(e)
asana_tool_boundary(body) ==
  IF body.k = "ret" THEN Done(body.data, body.sent, body.used, body.runs)
  ELSE IF isinstance(body.exc, "Exception")
    THEN Caught(body.exc, asana_handle_api_error(body.exc), body.sent, body.used, body.runs)
  ELSE Escaped(body.exc, body.sent, body.used, body.runs)

\* ---------------------------------------------------------- list reports
\* An upstream item is known by its position in the upstream list (gid) and
\* by the length of its rendering: md is len(_format_task_markdown(item)),
\* js the length of its text in json.dumps(..., indent=2); tag is what the
\* handler branches on (the type of a story, the kind of start of an event).
ItemSizes ==
  { [md |-> 150, js |-> 400], [md |-> 9000, js |-> 13000], [md |-> 26000, js |-> 30000] }

Item(i, size, tag) == [gid |-> i, md |-> size.md, js |-> size.js, tag |-> tag]

\* the task lists of length n the upstream can return
TaskLists(n) ==
  { [i \in 1..n |-> Item(i, f[i], "none")] : f \in [1..n -> ItemSizes] }

\* result += f"\n\n**Note**: ..." with the two counts interpolated
Note(tmpl, shown, total) == [tmpl |-> tmpl, shown |-> shown, total |-> total]
NoNote == [tmpl |-> "", shown |-> 0, total |-> 0]
NoteLen(note) ==
  IF note = NoNote THEN 0
  ELSE 2 + (Len(note.tmpl) - 4) + Digits(note.shown) + Digits(note.total)

\* _format_tasks_response: the report as the text it is, piece by piece
format_tasks_response(tasks, response_format, title) ==
  [kind |-> "report", fmt |-> response_format, title |-> title,
   count |-> Len(tasks), total |-> <<>>, has_more |-> FALSE,
   items |-> tasks, placeholder |-> IF response_format = "markdown" /\ tasks = <<>>
                                    THEN "No tasks found." ELSE "",
   items_key |-> "tasks", note |-> NoNote]

\* len() of an Asana report
TasksReportLen(r) ==
  LET n == Len(r.items) IN
  ( IF r.fmt = "markdown"
    THEN \* "\n".join(["# title", "", "Found N task(s)", ""] + blocks)
         Len("# ") + Len(r.title) + Len("Found ") + Digits(r.count) + Len(" task(s)")
           + (IF n = 0 THEN Len(r.placeholder) + 4 ELSE SumOver(r.items, "md") + (4 + n - 1))
    ELSE \* {\n  "count": N,\n  "tasks": [\n    item,\n    item\n  ]\n}
         2 + 11 + Digits(r.count) + 2 + 11
           + (IF n = 0 THEN 2 ELSE 2 + SumOver(r.items, "js") + 2 * (n - 1) + 4) + 2 )
  + NoteLen(r.note)

\* a halving that forgets the max(1, ...): tasks[:len(tasks) // 2]
truncated_tasks_floor(tasks) == SubSeq(tasks, 1, Len(tasks) \div 2)

\* a halving that rounds up: tasks[:(len(tasks) + 1) // 2]
truncated_tasks_ceil(tasks) == SubSeq(tasks, 1, (Len(tasks) + 1) \div 2)

\* tasks[:max(1, len(tasks) // 2)]
truncated_tasks(tasks) == SubSeq(tasks, 1, Max(1, Len(tasks) \div 2))

RECURSIVE asana_size_guard_loop(_, _, _, _, _, _)
\* a size guard that goes on halving while the report is over the limit
asana_size_guard_loop(tasks, response_format, title, noteTmpl, sent, used) ==
  LET full == format_tasks_response(tasks, response_format, title) IN
  IF TasksReportLen(full) > CHARACTER_LIMIT /\ Len(tasks) > 1
  THEN LET rest == asana_size_guard_loop(SubSeq(tasks, 1, Len(tasks) \div 2), response_format,
                                         title, noteTmpl, sent, used)
       IN Ret(rest.data, sent, used, <<TasksReportLen(full)>> \o rest.runs)
  ELSE Ret(full, sent, used, <<TasksReportLen(full)>>)

\* The size guard of the three Asana list tools, after the first formatting.
asana_size_guard(tasks, response_format, title, noteTmpl, sent, used) ==
  LET full == format_tasks_response(tasks, response_format, title) IN
  IF TasksReportLen(full) > CHARACTER_LIMIT
  THEN LET truncated == truncated_tasks(tasks)
           again == format_tasks_response(truncated, response_format, title \o " (Truncated)")
       IN Ret([again EXCEPT !.note = Note(noteTmpl, Len(truncated), Len(tasks))], sent, used,
              <<TasksReportLen(full), TasksReportLen(again)>>)
  ELSE Ret(full, sent, used, <<TasksReportLen(full)>>)

\* tasks = data if isinstance(data, list) else data.get('data', [])
list_or_data(data) == IF data.type = "list" THEN data.items ELSE DictGetList(data, "data")

asana_list_tasks_try(e, p, ans) ==
  LET endpoint == IF ~Falsy(p.project_gid) THEN "projects/{project_gid}/tasks"
                  ELSE IF ~Falsy(p.workspace_gid) THEN "workspaces/{workspace_gid}/tasks/search"
                  ELSE "tasks"
      call == asana_make_api_request(e, Request("GET", endpoint, {}), ans)
  IN IF call.k = "raise" THEN Throw(call.exc, call.sent, call.used, <<>>)
     ELSE LET tasks == list_or_data(call.data) IN
          IF tasks = <<>> THEN Ret(Msg("No tasks found.", <<>>), call.sent, call.used, <<>>)
          ELSE asana_size_guard(tasks, p.response_format, "My Tasks",
                                "**Note**: Showing {} of {} tasks.", call.sent, call.used)

asana_search_tasks_try(e, p, ans) ==
  IF Falsy(p.workspace_gid)
  THEN Ret(Msg("Error: workspace_gid is required. Please set ASANA_DEFAULT_WORKSPACE_GID in .env or provide it explicitly.", <<>>),
           <<>>, <<>>, <<>>)
  ELSE
  LET call == asana_make_api_request(e, Request("GET", "workspaces/{workspace_gid}/tasks/search", {}), ans)
  IN IF call.k = "raise" THEN Throw(call.exc, call.sent, call.used, <<>>)
     ELSE LET tasks == list_or_data(call.data) IN
          IF tasks = <<>>
          THEN Ret(Msg("No tasks found matching search criteria.", <<>>), call.sent, call.used, <<>>)
          ELSE asana_size_guard(tasks, p.response_format, "Search Results",
                                "**Note**: Showing {} of {} results.", call.sent, call.used)

asana_get_project_tasks_try(e, p, ans) ==
  LET call == asana_make_api_request(e, Request("GET", "projects/{project_gid}/tasks", {}), ans)
  IN IF call.k = "raise" THEN Throw(call.exc, call.sent, call.used, <<>>)
     ELSE LET tasks == list_or_data(call.data) IN
          IF tasks = <<>>
          THEN Ret(Msg("No tasks found in this project.", <<>>), call.sent, call.used, <<>>)
          ELSE asana_size_guard(tasks, p.response_format, "Project Tasks",
                                "**Note**: Showing {} of {} tasks.", call.sent, call.used)

\* A try block that is one request and a success message; `reads` tells
\* whether the message is built with .get() on the returned object.
asana_single_request_try(e, req, ans, reads, msg) ==
  LET call == asana_make_api_request(e, req, ans) IN
  IF call.k = "raise" THEN Throw(call.exc, call.sent, call.used, <<>>)
  ELSE IF reads /\ call.data.type = "list"
    THEN Throw(Exc("AttributeError", "'list' object has no attribute 'get'"),
               call.sent, call.used, <<>>)
  ELSE Ret(msg, call.sent, call.used, <<>>)

\* A list of projects, sections, tags or comments, returned without size guard.
plain_list_report(items, response_format, title, key) ==
  [kind |-> "report", fmt |-> response_format, title |-> title,
   count |-> Len(items), total |-> <<>>, has_more |-> FALSE,
   items |-> items, placeholder |-> "", items_key |-> key, note |-> NoNote]

\* A try block that is one request and the list it returned, formatted.
asana_plain_list_try(e, req, ans, response_format, title, key, emptyMsg) ==
  LET call == asana_make_api_request(e, req, ans) IN
  IF call.k = "raise" THEN Throw(call.exc, call.sent, call.used, <<>>)
  ELSE LET items == list_or_data(call.data) IN
       IF items = <<>> THEN Ret(Msg(emptyMsg, <<>>), call.sent, call.used, <<>>)
       ELSE Ret(plain_list_report(items, response_format, title, key), call.sent, call.used, <<>>)

asana_create_task_try(e, p, ans) ==
  asana_single_request_try(e, Request("POST", "tasks", {"name"}), ans, TRUE,
                           Msg("# Task Created Successfully", <<>>))

\* an update body that carries every field, None ones as null
asana_update_data_all_fields(p) == {"name", "notes", "assignee", "due_on", "completed"}

\* the keys of update_data["data"]: the fields that are not None
asana_update_data(p) ==
  {f \in {"name", "notes", "assignee", "due_on", "completed"} : p[f] # None}

asana_update_task_try(e, p, ans) ==
  IF asana_update_data(p) = {}
  THEN Ret(Msg("Error: No fields to update. Specify at least one field.", <<>>), <<>>, <<>>, <<>>)
  ELSE asana_single_request_try(e, Request("PUT", "tasks/{task_gid}", asana_update_data(p)),
                                ans, TRUE, Msg("# Task Updated Successfully", <<>>))

asana_complete_task_try(e, p, ans) ==
  asana_single_request_try(e, Request("PUT", "tasks/{task_gid}", {"completed"}), ans, TRUE,
                           Msg("Task '{}' marked as completed!", <<"name">>))

asana_list_projects_try(e, p, ans) ==
  IF Falsy(p.workspace_gid)
  THEN Ret(Msg("Error: workspace_gid is required. Please set ASANA_DEFAULT_WORKSPACE_GID in .env or provide it explicitly.", <<>>),
           <<>>, <<>>, <<>>)
  ELSE asana_plain_list_try(e, Request("GET", "projects", {}), ans, p.response_format,
                            "Asana Projects", "projects", "No projects found.")

asana_add_comment_try(e, p, ans) ==
  asana_single_request_try(e, Request("POST", "tasks/{task_gid}/stories", {"text"}), ans, FALSE,
                           Msg("Comment added to task successfully!", <<>>))

RECURSIVE SelectTag(_, _)
\* [s for s in stories if s.get('type') == tag]
SelectTag(stories, tag) ==
  IF stories = <<>> THEN <<>>
  ELSE IF Head(stories).tag = tag THEN <<Head(stories)>> \o SelectTag(Tail(stories), tag)
  ELSE SelectTag(Tail(stories), tag)

asana_get_task_comments_try(e, p, ans) ==
  LET call == asana_make_api_request(e, Request("GET", "tasks/{task_gid}/stories", {}), ans) IN
  IF call.k = "raise" THEN Throw(call.exc, call.sent, call.used, <<>>)
  ELSE LET comments == SelectTag(list_or_data(call.data), "comment") IN
       IF comments = <<>> THEN Ret(Msg("No comments found on this task.", <<>>), call.sent, call.used, <<>>)
       ELSE Ret(plain_list_report(comments, "markdown", "Task Comments", "comments"),
                call.sent, call.used, <<>>)

asana_list_sections_try(e, p, ans) ==
  asana_plain_list_try(e, Request("GET", "projects/{project_gid}/sections", {}), ans,
                       p.response_format, "Sections", "sections", "No sections found.")

asana_move_task_to_section_try(e, p, ans) ==
  asana_single_request_try(e, Request("POST", "sections/{section_gid}/addTask", {"task"}), ans,
                           FALSE, Msg("Task moved to section successfully!", <<>>))

asana_add_subtask_try(e, p, ans) ==
  asana_single_request_try(e, Request("POST", "tasks", {"name", "parent"}), ans, TRUE,
                           Msg("Subtask '{}' created (ID: {})", <<"name", "gid">>))

asana_get_task_details_try(e, p, ans) ==
  asana_single_request_try(e, Request("GET", "tasks/{task_gid}", {}), ans, TRUE,
                           Msg("# Task Details", <<>>))

asana_list_tags_try(e, p, ans) ==
  IF Falsy(p.workspace_gid)
  THEN Ret(Msg("Error: workspace_gid is required. Please set ASANA_DEFAULT_WORKSPACE_GID in .env or provide it explicitly.", <<>>),
           <<>>, <<>>, <<>>)
  ELSE asana_plain_list_try(e, Request("GET", "tags", {}), ans, p.response_format,
                            "Workspace Tags", "tags", "No tags found in this workspace.")

asana_add_tag_to_task_try(e, p, ans) ==
  asana_single_request_try(e, Request("POST", "tasks/{task_gid}/addTag", {"tag"}), ans, FALSE,
                           Msg("Tag added to task successfully!", <<>>))

asana_set_due_date_try(e, p, ans) ==
  asana_single_request_try(e, Request("PUT", "tasks/{task_gid}", {"due_on"}), ans, TRUE,
                           Msg("Due date set to {} for task '{}'", <<"due_on", "name">>))

asana_assign_task_try(e, p, ans) ==
  asana_single_request_try(e, Request("PUT", "tasks/{task_gid}", {"assignee"}), ans, TRUE,
                           Msg("Task '{}' assigned to {}", <<"name", "assignee_name">>))

asana_get_user_task_list_try(e, p, ans) ==
  asana_single_request_try(e, Request("GET", "users/{user_gid}/user_task_list", {}), ans, TRUE,
                           Msg("# User Task List", <<>>))

\* ========================================================== Google Calendar
\* ---------------------------------------------------------------- datetime
\* A datetime: its calendar fields and its UTC offset, <<minutes>>, or <<>>
\* for a naive one.
DateTime(y, m, d, hh, mi, ss, us, off) ==
  [year |-> y, month |-> m, day |-> d, hour |-> hh, minute |-> mi, second |-> ss,
   microsecond |-> us, offset |-> off]

IsLeap(y) == (y % 4 = 0 /\ y % 100 # 0) \/ y % 400 = 0

DaysInMonth(y, m) ==
  IF m = 2 THEN (IF IsLeap(y) THEN 29 ELSE 28)
  ELSE IF m \in {4, 6, 9, 11} THEN 30 ELSE 31

\* a day step that takes February for 28 days in every year
NextDay_no_leap(dt) ==
  IF dt.day < (IF dt.month = 2 THEN 28 ELSE DaysInMonth(dt.year, dt.month))
  THEN [dt EXCEPT !.day = dt.day + 1]
  ELSE IF dt.month < 12 THEN [dt EXCEPT !.month = dt.month + 1, !.day = 1]
  ELSE [dt EXCEPT !.year = dt.year + 1, !.month = 1, !.day = 1]

\* dt + timedelta(days=1)
NextDay(dt) ==
  IF dt.day < DaysInMonth(dt.year, dt.month) THEN [dt EXCEPT !.day = dt.day + 1]
  ELSE IF dt.month < 12 THEN [dt EXCEPT !.month = dt.month + 1, !.day = 1]
  ELSE [dt EXCEPT !.year = dt.year + 1, !.month = 1, !.day = 1]

RECURSIVE PlusDays(_, _)
\* dt + timedelta(days=n)
PlusDays(dt, n) == IF n = 0 THEN dt ELSE PlusDays(NextDay(dt), n - 1)

\* dt.replace(hour=0, minute=0, second=0, microsecond=0)
AtMidnight(dt) == [dt EXCEPT !.hour = 0, !.minute = 0, !.second = 0, !.microsecond = 0]

\* An ISO 8601 string as the caller writes it or isoformat() prints it: the
\* date, the time of day (<<>> when the string has no time part), the
\* fraction (<<>> when it is not printed) and the suffix after the time.
IsoText(date, time, frac, suffix) ==
  [s |-> "iso", date |-> date, time |-> time, frac |-> frac, suffix |-> suffix]
\* the other values of an Optional[str] date parameter
StrNone == [s |-> "none", date |-> <<>>, time |-> <<>>, frac |-> <<>>, suffix |-> ""]
StrEmpty == [s |-> "empty", date |-> <<>>, time |-> <<>>, frac |-> <<>>, suffix |-> ""]
StrNotIso == [s |-> "text", date |-> <<>>, time |-> <<>>, frac |-> <<>>, suffix |-> ""]

\* a test that takes only None for missing: `s is None`
DateFalsy_none_only(s) == s.s = "none"

\* `not s` for an Optional[str] date parameter
DateFalsy(s) == s.s \in {"none", "empty"}

\* the UTC offset an ISO suffix stands for, in minutes
SuffixOffset(suffix) ==
  CASE suffix = "" -> <<>>
    [] suffix = "+00:00" -> <<0>>
    [] suffix = "+02:00" -> <<120>>
    [] suffix = "-05:00" -> <<-300>>

\* how isoformat() prints a UTC offset
OffsetSuffix(off) ==
  CASE off = <<>> -> ""
    [] off = <<0>> -> "+00:00"
    [] off = <<120>> -> "+02:00"
    [] off = <<-300>> -> "-05:00"

\* datetime.isoformat(): the fraction is printed only when it is not zero
isoformat(dt) ==
  IsoText(<<dt.year, dt.month, dt.day>>, <<dt.hour, dt.minute, dt.second>>,
          IF dt.microsecond = 0 THEN <<>> ELSE <<dt.microsecond>>, OffsetSuffix(dt.offset))

\* datetime.fromisoformat(s.replace('Z', '+00:00')), for s an ISO string
fromisoformat_z(s) ==
  LET suffix == IF s.suffix = "Z" THEN "+00:00" ELSE s.suffix
      t == IF s.time = <<>> THEN <<0, 0, 0>> ELSE s.time
  IN DateTime(s.date[1], s.date[2], s.date[3], t[1], t[2], t[3],
              IF s.frac = <<>> THEN 0 ELSE s.frac[1], SuffixOffset(suffix))

\* an end bound of this_month without the December case
first_of_next_month_no_rollover(t0) ==
  AtMidnight([t0 EXCEPT !.month = t0.month + 1, !.day = 1])

\* the end bound of this_month: the first day of the month after t0's
first_of_next_month(t0) ==
  IF t0.month = 12
  THEN AtMidnight([t0 EXCEPT !.year = t0.year + 1, !.month = 1, !.day = 1])
  ELSE AtMidnight([t0 EXCEPT !.month = t0.month + 1, !.day = 1])

\* _get_time_range_bounds, with `t0` what datetime.now(ZoneInfo("UTC")) returns
get_time_range_bounds(time_range, start_date, end_date, t0) ==
  CASE time_range = "today" ->
         LET start == AtMidnight(t0) IN
         Returned(<<isoformat(start), isoformat(PlusDays(start, 1))>>, <<>>, <<>>)
    [] time_range = "tomorrow" ->
         LET start == AtMidnight(PlusDays(t0, 1)) IN
         Returned(<<isoformat(start), isoformat(PlusDays(start, 1))>>, <<>>, <<>>)
    [] time_range = "this_week" ->
         LET start == AtMidnight(t0) IN
         Returned(<<isoformat(start), isoformat(PlusDays(start, 7))>>, <<>>, <<>>)
    [] time_range = "next_week" ->
         LET start == AtMidnight(PlusDays(t0, 7)) IN
         Returned(<<isoformat(start), isoformat(PlusDays(start, 7))>>, <<>>, <<>>)
    [] time_range = "this_month" ->
         LET start == AtMidnight([t0 EXCEPT !.day = 1]) IN
         Returned(<<isoformat(start), isoformat(first_of_next_month(t0))>>, <<>>, <<>>)
    [] time_range = "custom" ->
         IF DateFalsy(start_date) \/ DateFalsy(end_date)
         THEN Raised(Exc("ValueError",
                         "For CUSTOM time range, both start_date and end_date must be provided"),
                     <<>>, <<>>)
         ELSE IF start_date.s = "none" \/ (start_date.s = "iso" /\ end_date.s = "none")
         THEN Raised(Exc("AttributeError", "'NoneType' object has no attribute 'replace'"),
                     <<>>, <<>>)
         ELSE IF start_date.s # "iso" \/ end_date.s # "iso"
         THEN Raised(Exc("ValueError", "Invalid isoformat string"), <<>>, <<>>)
         ELSE Returned(<<isoformat(fromisoformat_z(start_date)),
                         isoformat(fromisoformat_z(end_date))>>, <<>>, <<>>)
    [] OTHER -> Raised(Exc("ValueError", "Invalid time range: {time_range}"), <<>>, <<>>)

\* ------------------------------------------------------------ the adapter
gcal_get_api_headers(e) ==
  IF "GOOGLE_CALENDAR_ACCESS_TOKEN" \notin e
  THEN Raised(Exc("ValueError",
                  "GOOGLE_CALENDAR_ACCESS_TOKEN environment variable not set. Please set it with a valid OAuth2 access token."),
              <<>>, <<>>)
  ELSE Returned(NoData, <<>>, <<>>)

\* _make_api_request of the Calendar adapter: like Asana's, but a 204 is an
\* empty dict and the decoded body is returned as it is.
gcal_make_api_request(e, req, ans, listKey) ==
  LET h == gcal_get_api_headers(e) IN
  IF h.k = "raise" THEN h
  ELSE IF ans.k = "exc" THEN Raised(ans.exc, <<req>>, <<ans>>)
  ELSE IF ans.k = "status" THEN Raised(StatusError(ans.status, ans.body), <<req>>, <<ans>>)
  ELSE IF ans.shape = "no_content" THEN Returned(PyDict("none", <<>>), <<req>>, <<ans>>)
  ELSE IF ans.shape = "not_json"
    THEN Raised(Exc("JSONDecodeError", "Expecting value: line 1 column 1 (char 0)"), <<req>>, <<ans>>)
  ELSE Returned(Decoded(ans, listKey), <<req>>, <<ans>>)

gcal_handle_api_error(e) ==
  IF isinstance(e, "ValueError") THEN Msg("Configuration Error: {}", <<e.text>>)
  ELSE IF isinstance(e, "HTTPStatusError") THEN
    IF e.status = 400 THEN Msg("Error: Bad request. {}", <<e.body>>)
    ELSE IF e.status = 401 THEN Msg("Error: Authentication failed. Please check your access token.", <<>>)
    ELSE IF e.status = 403 THEN Msg("Error: Permission denied. You don't have access to this calendar.", <<>>)
    ELSE IF e.status = 404 THEN Msg("Error: Event or calendar not found. Please check the ID.", <<>>)
    ELSE IF e.status = 429 THEN Msg("Error: Rate limit exceeded. Please wait before making more requests.", <<>>)
    ELSE Msg("Error: API request failed with status {}: {}", <<ToString(e.status), e.body>>)
  ELSE IF isinstance(e, "TimeoutException") THEN Msg("Error: Request timed out. Please try again.", <<>>)
  ELSE Msg("Error: Unexpected error occurred: {}: {}", <<e.cls, e.text>>)

\* try: <body> except Exception as e: return _handle_api_error(e)
gcal_tool_boundary(body) ==
  IF body.k = "ret" THEN Done(body.data, body.sent, body.used, body.runs)
  ELSE IF isinstance(body.exc, "Exception")
    THEN Caught(body.exc, gcal_handle_api_error(body.exc), body.sent, body.used, body.runs)
  ELSE Escaped(body.exc, body.sent, body.used, body.runs)

\* ---------------------------------------------------------- event reports
\* What _format_event_markdown does with an event depends on its start: a
\* "timed" one has start.dateTime and end.dateTime in ISO format, an "allday"
\* one has start.date, a "bad_time" one a start.dateTime that is no ISO
\* string, a "no_end" one a start.dateTime and no end.dateTime.
EventTags == {"timed", "allday", "bad_time", "no_end"}

RECURSIVE format_event_markdown_error(_)
\* the exception the first event that cannot be rendered raises, if any
format_event_markdown_error(events) ==
  IF events = <<>> THEN NoExc
  ELSE IF Head(events).tag = "bad_time" THEN Exc("ValueError", "Invalid isoformat string")
  ELSE IF Head(events).tag = "no_end" THEN Exc("KeyError", "'dateTime'")
  ELSE format_event_markdown_error(Tail(events))

\* _format_events_response: the report, or the exception of an event that
\* the markdown rendering cannot read; total_count is <<>> for None
format_events_response(events, response_format, total_count, has_more) ==
  LET bad == IF response_format = "markdown" THEN format_event_markdown_error(events) ELSE NoExc IN
  IF bad # NoExc THEN Raised(bad, <<>>, <<>>)
  ELSE Returned([kind |-> "report", fmt |-> response_format, title |-> "Google Calendar Events",
                 count |-> Len(events), total |-> total_count, has_more |-> has_more,
                 items |-> events, placeholder |-> IF response_format = "markdown" /\ events = <<>>
                                                   THEN "No events found." ELSE "",
                 items_key |-> "events", note |-> NoNote], <<>>, <<>>)

\* len() of a Calendar report
EventsReportLen(r) ==
  LET n == Len(r.items) IN
  ( IF r.fmt = "markdown"
    THEN \* "\n".join(["# title", "", count line, (note line,) ""] + blocks)
         Len("# ") + Len(r.title)
           + (IF r.total # <<>>
              THEN Len("Found ") + Digits(r.total[1]) + Len(" events (showing ") + Digits(r.count) + 1
              ELSE Len("Found ") + Digits(r.count) + Len(" events"))
           + (IF r.has_more
              THEN Len("**Note**: More events available. Use pagination to see more.") + 1 ELSE 0)
           + (IF n = 0 THEN Len(r.placeholder) + 4 ELSE SumOver(r.items, "md") + (4 + n - 1))
    ELSE \* {\n  "count": N,\n  "events": [...],\n  "total": T,\n  "has_more": true\n}
         2 + 11 + Digits(r.count) + 2 + 12
           + (IF n = 0 THEN 2 ELSE 2 + SumOver(r.items, "js") + 2 * (n - 1) + 4)
           + (IF r.total # <<>> THEN 2 + 11 + Digits(r.total[1]) ELSE 0)
           + (IF r.has_more THEN 2 + 18 ELSE 0) + 2 )
  + NoteLen(r.note)

\* a halving that keeps the last items: events[-max(1, len(events) // 2):]
truncated_events_tail(events) ==
  SubSeq(events, Len(events) - Max(1, Len(events) \div 2) + 1, Len(events))

\* events[:max(1, len(events) // 2)]
truncated_events(events) == SubSeq(events, 1, Max(1, Len(events) \div 2))

\* The size guard of the two Calendar list tools, from the first formatting on.
gcal_size_guard(events, response_format, noteTmpl, sent, used) ==
  LET full == format_events_response(events, response_format, <<Len(events)>>, FALSE) IN
  IF full.k = "raise" THEN Throw(full.exc, sent, used, <<0>>)
  ELSE IF EventsReportLen(full.data) > CHARACTER_LIMIT
  THEN LET truncated == truncated_events(events)
           again == format_events_response(truncated, response_format, <<Len(events)>>, TRUE)
       IN IF again.k = "raise" THEN Throw(again.exc, sent, used, <<EventsReportLen(full.data), 0>>)
          ELSE Ret([again.data EXCEPT !.note = Note(noteTmpl, Len(truncated), Len(events))],
                   sent, used, <<EventsReportLen(full.data), EventsReportLen(again.data)>>)
  ELSE Ret(full.data, sent, used, <<EventsReportLen(full.data)>>)

\* data.get(key, ...) on what _make_api_request returned
gcal_get(call, key) ==
  IF call.data.type = "list"
  THEN Raised(Exc("AttributeError", "'list' object has no attribute 'get'"), call.sent, call.used)
  ELSE Returned(DictGetList(call.data, key), call.sent, call.used)

gcal_list_events_try(e, p, ans, t0) ==
  LET bounds == get_time_range_bounds(p.time_range, p.start_date, p.end_date, t0) IN
  IF bounds.k = "raise" THEN Throw(bounds.exc, <<>>, <<>>, <<>>)
  ELSE
  LET call == gcal_make_api_request(e, WindowRequest("GET", "calendars/{calendar_id}/events",
                                                     bounds.data[1], bounds.data[2]),
                                    ans, "items")
  IN IF call.k = "raise" THEN Throw(call.exc, call.sent, call.used, <<>>)
     ELSE LET events == gcal_get(call, "items") IN
          IF events.k = "raise" THEN Throw(events.exc, call.sent, call.used, <<>>)
          ELSE IF events.data = <<>>
          THEN Ret(Msg("No events found in the specified time range ({}).", <<p.time_range>>),
                   call.sent, call.used, <<>>)
          ELSE gcal_size_guard(events.data, p.response_format,
                               "**Note**: Response truncated. Showing {} of {} events.",
                               call.sent, call.used)

gcal_search_events_try(e, p, ans) ==
  LET call == gcal_make_api_request(e, Request("GET", "calendars/{calendar_id}/events", {"q"}),
                                    ans, "items")
  IN IF call.k = "raise" THEN Throw(call.exc, call.sent, call.used, <<>>)
     ELSE LET events == gcal_get(call, "items") IN
          IF events.k = "raise" THEN Throw(events.exc, call.sent, call.used, <<>>)
          ELSE IF events.data = <<>>
          THEN Ret(Msg("No events found matching '{}'", <<"query">>), call.sent, call.used, <<>>)
          ELSE gcal_size_guard(events.data, p.response_format,
                               "**Note**: Response truncated. Showing {} of {} events. Refine your search query for better results.",
                               call.sent, call.used)

gcal_create_event_try(e, p, ans) ==
  LET call == gcal_make_api_request(e, Request("POST", "calendars/{calendar_id}/events",
                                               {"summary", "start", "end"}), ans, "items")
  IN IF call.k = "raise" THEN Throw(call.exc, call.sent, call.used, <<>>)
     ELSE IF call.data.type = "list"
       THEN Throw(Exc("AttributeError", "'list' object has no attribute 'get'"),
                  call.sent, call.used, <<>>)
     ELSE Ret(Msg("# Event Created Successfully", <<>>), call.sent, call.used, <<>>)

\* the keys of patch_data that do not need the existing event
gcal_patch_fields(p) ==
  {f \in {"summary", "description", "location", "status"} : p[f] # None}

\* a tool that builds start and end without reading the existing event
gcal_existing_event_not_fetched(e, p, existing) == Returned(PyDict("none", <<>>), <<>>, <<>>)

\* if params.start_datetime or params.end_datetime or params.timezone:
\*     existing_event = await _make_api_request(".../events/{event_id}")
gcal_existing_event(e, p, existing) ==
  IF ~Falsy(p.start_datetime) \/ ~Falsy(p.end_datetime) \/ ~Falsy(p.timezone)
  THEN gcal_make_api_request(e, Request("GET", "calendars/{calendar_id}/events/{event_id}", {}),
                             existing, "items")
  ELSE Returned(NoData, <<>>, <<>>)

gcal_update_event_try(e, p, existing, ans) ==
  LET needsExisting == ~Falsy(p.start_datetime) \/ ~Falsy(p.end_datetime) \/ ~Falsy(p.timezone)
      get == gcal_existing_event(e, p, existing)
      reads == ~Falsy(p.start_datetime) \/ ~Falsy(p.end_datetime)
      patch_data == gcal_patch_fields(p)
                      \cup (IF ~Falsy(p.start_datetime) THEN {"start"} ELSE {})
                      \cup (IF ~Falsy(p.end_datetime) THEN {"end"} ELSE {})
  IN IF get.k = "raise" THEN Throw(get.exc, get.sent, get.used, <<>>)
     ELSE IF needsExisting /\ reads /\ get.data.type = "list"
       THEN Throw(Exc("AttributeError", "'list' object has no attribute 'get'"),
                  get.sent, get.used, <<>>)
     ELSE IF patch_data = {}
       THEN Ret(Msg("Error: No fields to update. Please specify at least one field to change.", <<>>),
                get.sent, get.used, <<>>)
     ELSE LET call == gcal_make_api_request(e, Request("PATCH", "calendars/{calendar_id}/events/{event_id}",
                                                       patch_data), ans, "items")
          IN IF call.k = "raise"
             THEN Throw(call.exc, get.sent \o call.sent, get.used \o call.used, <<>>)
             ELSE IF call.data.type = "list"
               THEN Throw(Exc("AttributeError", "'list' object has no attribute 'get'"),
                          get.sent \o call.sent, get.used \o call.used, <<>>)
             ELSE Ret(Msg("# Event Updated Successfully", <<>>),
                      get.sent \o call.sent, get.used \o call.used, <<>>)

gcal_delete_event_try(e, p, ans) ==
  LET call == gcal_make_api_request(e, Request("DELETE", "calendars/{calendar_id}/events/{event_id}", {}),
                                    ans, "items")
  IN IF call.k = "raise" THEN Throw(call.exc, call.sent, call.used, <<>>)
     ELSE Ret(Msg("# Event Deleted Successfully", <<>>), call.sent, call.used, <<>>)

gcal_check_availability_try(e, p, ans) ==
  LET call == gcal_make_api_request(e, Request("POST", "freeBusy", {"timeMin", "timeMax", "items"}),
                                    ans, "calendars")
  IN IF call.k = "raise" THEN Throw(call.exc, call.sent, call.used, <<>>)
     ELSE LET busy == gcal_get(call, "calendars") IN
          IF busy.k = "raise" THEN Throw(busy.exc, call.sent, call.used, <<>>)
          ELSE IF p.response_format = "markdown"
            THEN IF \E i \in 1..Len(busy.data) : busy.data[i].tag = "bad_time"
                 THEN Throw(Exc("ValueError", "Invalid isoformat string"), call.sent, call.used, <<>>)
                 ELSE Ret(Msg("# Calendar Availability Check", <<>>), call.sent, call.used, <<>>)
          ELSE Ret(plain_list_report(busy.data, "json", "Calendar Availability Check", "calendars"),
                   call.sent, call.used, <<>>)

\* =============================================================== Perplexity
\* A text result: the first `shown` characters of a text of `original`
\* characters, followed by a notice of `notice` characters.
TextResult(title, shown, notice, original) ==
  [kind |-> "text", title |-> title, shown |-> shown, notice |-> notice, original |-> original]

perplexity_get_api_key(e) ==
  IF "PERPLEXITY_API_KEY" \notin e
  THEN Raised(Exc("ValueError", "PERPLEXITY_API_KEY not set in .env file"), <<>>, <<>>)
  ELSE Returned(NoData, <<>>, <<>>)

\* _make_api_request of the Perplexity adapter: the key is read first
perplexity_make_api_request(e, req, ans) ==
  LET key == perplexity_get_api_key(e) IN
  IF key.k = "raise" THEN key
  ELSE IF ans.k = "exc" THEN Raised(ans.exc, <<req>>, <<ans>>)
  ELSE IF ans.k = "status" THEN Raised(StatusError(ans.status, ans.body), <<req>>, <<ans>>)
  ELSE IF ans.shape = "not_json"
    THEN Raised(Exc("JSONDecodeError", "Expecting value: line 1 column 1 (char 0)"), <<req>>, <<ans>>)
  ELSE Returned(Decoded(ans, "choices"), <<req>>, <<ans>>)

perplexity_handle_api_error(e) ==
  IF isinstance(e, "ValueError") THEN Msg("Configuration Error: {}", <<e.text>>)
  ELSE IF isinstance(e, "HTTPStatusError") THEN
    IF e.status = 401 THEN Msg("Error: Invalid API key. Please check your PERPLEXITY_API_KEY in the .env file.", <<>>)
    ELSE IF e.status = 429 THEN Msg("Error: Rate limit exceeded. Please wait a moment before making more requests.", <<>>)
    ELSE IF e.status = 400 THEN
      IF e.body = JsonErrorBody THEN Msg("Error: Invalid request - {}", <<"bad field">>)
      ELSE Msg("Error: Invalid request. Please check your parameters.", <<>>)
    ELSE IF e.status = 500 THEN Msg("Error: Perplexity API server error. Please try again later.", <<>>)
    ELSE Msg("Error: API request failed with status {}", <<ToString(e.status)>>)
  ELSE IF isinstance(e, "TimeoutException")
    THEN Msg("Error: Request timed out. The query may be too complex or the service is slow. Try again.", <<>>)
  ELSE Msg("Error: Unexpected error occurred: {} - {}", <<e.cls, e.text>>)

\* try: <body> except Exception as e: return _handle_api_error(e)
perplexity_tool_boundary(body) ==
  IF body.k = "ret" THEN Done(body.data, body.sent, body.used, body.runs)
  ELSE IF isinstance(body.exc, "Exception")
    THEN Caught(body.exc, perplexity_handle_api_error(body.exc), body.sent, body.used, body.runs)
  ELSE Escaped(body.exc, body.sent, body.used, body.runs)

\* _truncate_if_needed(content) for a content of n characters
truncate_if_needed(title, n) ==
  IF n <= CHARACTER_LIMIT THEN TextResult(title, n, 0, n)
  ELSE TextResult(title, CHARACTER_LIMIT,
                  2 + (Len("[Response truncated at {} characters. Original length: {} characters]") - 4)
                    + Digits(CHARACTER_LIMIT) + Digits(n), n)

\* len() of a text result
TextLen(r) == r.shown + r.notice

\* len(response.get("choices", [{}])[0].get("message", {}).get("content", default))
perplexity_content(call, default) ==
  IF call.data.type = "list"
  THEN Raised(Exc("AttributeError", "'list' object has no attribute 'get'"), call.sent, call.used)
  ELSE IF call.data.key = "choices" /\ call.data.items = <<>>
  THEN Raised(Exc("IndexError", "list index out of range"), call.sent, call.used)
  ELSE IF call.data.key = "choices" THEN Returned(call.data.items[1].md, call.sent, call.used)
  ELSE Returned(Len(default), call.sent, call.used)

\* The try block of the four Perplexity tools: one completion request, the
\* content under a heading, truncated if needed.
perplexity_completion_try(e, ans, heading, default) ==
  LET call == perplexity_make_api_request(e, Request("POST", "/chat/completions", {"model", "messages"}), ans)
  IN IF call.k = "raise" THEN Throw(call.exc, call.sent, call.used, <<>>)
     ELSE LET content == perplexity_content(call, default) IN
          IF content.k = "raise" THEN Throw(content.exc, call.sent, call.used, <<>>)
          ELSE Ret(truncate_if_needed(heading, Len(heading) + 2 + content.data + 1),
                   call.sent, call.used, <<>>)

perplexity_ask_try(e, p, ans) ==
  perplexity_completion_try(e, ans, "# Perplexity AI Response", "No response generated")

perplexity_search_try(e, p, ans) ==
  perplexity_completion_try(e, ans, "# Search Results: \"{query}\"", "No results found")

perplexity_research_try(e, p, ans) ==
  perplexity_completion_try(e, ans, "# Deep Research Report: {research_query}",
                            "No research results generated")

perplexity_reason_try(e, p, ans) ==
  perplexity_completion_try(e, ans, "# Reasoning Analysis", "No reasoning response generated")

\* ============================================================ Google Places
\* API_KEY is read from the environment once, when the module is imported.
check_api_key(e) == "GOOGLE_MAPS_API_KEY" \in e

places_handle_api_error(e) ==
  IF isinstance(e, "HTTPStatusError") THEN
    IF e.status = 400 THEN
      IF e.body = JsonErrorBody
      THEN Msg("Error: Invalid request - {}. Please check your parameters.", <<"bad field">>)
      ELSE Msg("Error: Invalid request. Please check your parameters.", <<>>)
    ELSE IF e.status = 401 THEN Msg("Error: Invalid API key. Please verify your GOOGLE_MAPS_API_KEY environment variable.", <<>>)
    ELSE IF e.status = 403 THEN Msg("Error: API access forbidden. Ensure the API is enabled in your Google Cloud Console and the key has proper permissions.", <<>>)
    ELSE IF e.status = 404 THEN Msg("Error: Resource not found. Please check the place ID or address is correct.", <<>>)
    ELSE IF e.status = 429 THEN Msg("Error: Rate limit exceeded. Please wait before making more requests.", <<>>)
    ELSE Msg("Error: API request failed with status {}", <<ToString(e.status)>>)
  ELSE IF isinstance(e, "TimeoutException") THEN Msg("Error: Request timed out. Please try again.", <<>>)
  ELSE IF isinstance(e, "ConnectError")
    THEN Msg("Error: Could not connect to Google Maps API. Please check your internet connection.", <<>>)
  ELSE Msg("Error: Unexpected error occurred: {} - {}", <<e.cls, e.text>>)

\* a tool boundary whose except clause names httpx.HTTPError only
places_tool_boundary_http_only(e, body) ==
  IF ~check_api_key(e)
  THEN Done(Msg("Error: Google Maps API key not configured. Please set the GOOGLE_MAPS_API_KEY environment variable.", <<>>),
            <<>>, <<>>, <<>>)
  ELSE IF body.k = "ret" THEN Done(body.data, body.sent, body.used, body.runs)
  ELSE IF isinstance(body.exc, "HTTPError")
    THEN Caught(body.exc, places_handle_api_error(body.exc), body.sent, body.used, body.runs)
  ELSE Escaped(body.exc, body.sent, body.used, body.runs)

\* if not _check_api_key(): return "Error: ..."
\* try: <body> except Exception as e: return _handle_api_error(e)
places_tool_boundary(e, body) ==
  IF ~check_api_key(e)
  THEN Done(Msg("Error: Google Maps API key not configured. Please set the GOOGLE_MAPS_API_KEY environment variable.", <<>>),
            <<>>, <<>>, <<>>)
  ELSE IF body.k = "ret" THEN Done(body.data, body.sent, body.used, body.runs)
  ELSE IF isinstance(body.exc, "Exception")
    THEN Caught(body.exc, places_handle_api_error(body.exc), body.sent, body.used, body.runs)
  ELSE Escaped(body.exc, body.sent, body.used, body.runs)

\* One request of the Places adapter: client.get/post, raise_for_status,
\* response.json().
places_request(req, ans, listKey) ==
  IF ans.k = "exc" THEN Raised(ans.exc, <<req>>, <<ans>>)
  ELSE IF ans.k = "status" THEN Raised(StatusError(ans.status, ans.body), <<req>>, <<ans>>)
  ELSE IF ans.shape = "not_json"
    THEN Raised(Exc("JSONDecodeError", "Expecting value: line 1 column 1 (char 0)"), <<req>>, <<ans>>)
  ELSE Returned(Decoded(ans, listKey), <<req>>, <<ans>>)

\* data.get(key, []) on a decoded body
places_get(call, key) ==
  IF call.data.type = "list"
  THEN Raised(Exc("AttributeError", "'list' object has no attribute 'get'"), call.sent, call.used)
  ELSE Returned(DictGetList(call.data, key), call.sent, call.used)

\* A location string, as _geocode_location reads it: the parts that
\* location.split(',') yields, each one a number that float() parses (in
\* whole degrees; nan is float('nan')) or a text that float() rejects.
Number(v) == [num |-> TRUE, nan |-> FALSE, val |-> v]
NotANumber == [num |-> TRUE, nan |-> TRUE, val |-> 0]
Words == [num |-> FALSE, nan |-> FALSE, val |-> 0]

Locations ==
  { <<Number(32), Number(-81)>>, <<Number(90), Number(180)>>, <<Number(-90), Number(-180)>>,
    <<Number(91), Number(0)>>, <<Number(-91), Number(0)>>, <<Number(0), Number(181)>>,
    <<Number(0), Number(-181)>>, <<NotANumber, Number(0)>>, <<Words, Number(0)>>,
    <<Number(0), Words>>, <<Words, Words>>, <<Number(1), Number(2), Number(3)>>,
    <<Number(5)>>, <<Words>> }

\* a coordinate test that leaves the range check out
literal_coordinates_any_range(location) ==
  /\ Len(location) = 2
  /\ location[1].num /\ location[2].num

\* the first part of _geocode_location: the string is two numbers, a
\* latitude in -90..90 and a longitude in -180..180 (a comparison with nan
\* is false)
literal_coordinates(location) ==
  /\ Len(location) > 1
  /\ Len(location) = 2
  /\ location[1].num /\ location[2].num
  /\ ~location[1].nan /\ -90 <= location[1].val /\ location[1].val <= 90
  /\ ~location[2].nan /\ -180 <= location[2].val /\ location[2].val <= 180

\* _geocode_location: data is <<coords>> or <<>> for None
geocode_location(location, ans) ==
  IF literal_coordinates(location) THEN Returned(<<"coords">>, <<>>, <<>>)
  ELSE LET call == places_request(Request("GET", "geocode/json", {"address"}), ans, "results") IN
       IF call.k = "raise" THEN call
       ELSE LET results == places_get(call, "results") IN
            IF results.k = "raise" THEN results
            ELSE IF results.data # <<>> THEN Returned(<<"coords">>, call.sent, call.used)
            ELSE Returned(<<>>, call.sent, call.used)

\* a guard that keeps CHARACTER_LIMIT characters of the text and puts the
\* note behind them
places_size_guard_note_after_limit(title, n, noteTmpl) ==
  LET note == 2 + (Len(noteTmpl) - 2) + Digits(CHARACTER_LIMIT) IN
  IF n > CHARACTER_LIMIT THEN TextResult(title, CHARACTER_LIMIT, note, n)
  ELSE TextResult(title, n, 0, n)

\* a tool without the size guard: the text is returned as it was built
places_size_guard_absent(title, n, noteTmpl) == TextResult(title, n, 0, n)

\* The size guard of the Places tools: the text is cut so that it and the
\* note together are CHARACTER_LIMIT long.
places_size_guard(title, n, noteTmpl) ==
  LET note == 2 + (Len(noteTmpl) - 2) + Digits(CHARACTER_LIMIT) IN
  IF n > CHARACTER_LIMIT THEN TextResult(title, CHARACTER_LIMIT - note, note, n)
  ELSE TextResult(title, n, 0, n)

\* len() of the text the Places tools build from the places they found
PlacesTextLen(title, items, response_format) ==
  IF response_format = "markdown"
  THEN Len(title) + 1 + SumOver(items, "md") + Len(items)
  ELSE 2 + SumOver(items, "js") + 2 * Len(items) + 2

\* results_by_type[place_type] = places: a dict keeps the position of a key
\* it already holds and replaces its value
dict_set(d, key, value) ==
  IF \E i \in 1..Len(d) : d[i].type = key
  THEN [i \in 1..Len(d) |-> IF d[i].type = key THEN [type |-> key, places |-> value] ELSE d[i]]
  ELSE Append(d, [type |-> key, places |-> value])

RECURSIVE dict_values(_)
\* the places of all the entries of results_by_type, in the order of the dict
dict_values(d) == IF d = <<>> THEN <<>> ELSE Head(d).places \o dict_values(Tail(d))

\* what the search has found: results_by_type and total_count
Found(results_by_type, total_count) ==
  [results_by_type |-> results_by_type, total_count |-> total_count]

RECURSIVE nearby_search_each(_, _, _, _, _)
\* for place_type in params.place_types: one searchNearby request each; the
\* places of a type are appended in the order the upstream returned them
nearby_search_each(place_types, answers, sent, used, found) ==
  IF place_types = <<>> THEN Returned(found, sent, used)
  ELSE LET call == places_request(Request("POST", "places:searchNearby", {"includedTypes"}),
                                  Head(answers), "places")
       IN IF call.k = "raise" THEN Raised(call.exc, sent \o call.sent, used \o call.used)
          ELSE LET places == places_get(call, "places") IN
               IF places.k = "raise" THEN Raised(places.exc, sent \o call.sent, used \o call.used)
               ELSE nearby_search_each(Tail(place_types), Tail(answers),
                                       sent \o call.sent, used \o call.used,
                                       Found(dict_set(found.results_by_type, Head(place_types),
                                                      places.data),
                                             found.total_count + Len(places.data)))

\* the text of the nearby search with what it was built from
NearbyResult(text, found) ==
  [kind |-> text.kind, title |-> text.title, shown |-> text.shown, notice |-> text.notice,
   original |-> text.original, results_by_type |-> found.results_by_type,
   total_count |-> found.total_count]

\* the text of the nearby search: the report of all the places found, under
\* the size guard
nearby_search_text(p, found) ==
  NearbyResult(
    places_size_guard("# Nearby Places: {location}",
                      PlacesTextLen("# Nearby Places: {location}",
                                    dict_values(found.results_by_type), p.response_format),
                      "[Response truncated - exceeded {} character limit. Try reducing radius_miles or max_results.]"),
    found)

google_places_nearby_search_try(p, geo, answers) ==
  LET coords == geocode_location(p.location, geo) IN
  IF coords.k = "raise" THEN Throw(coords.exc, coords.sent, coords.used, <<>>)
  ELSE IF coords.data = <<>>
    THEN Ret(Msg("Error: Could not geocode location '{}'. Please provide a valid address or coordinates.",
                 <<"location">>), coords.sent, coords.used, <<>>)
  ELSE LET all == nearby_search_each(p.place_types, answers, coords.sent, coords.used,
                                     Found(<<>>, 0))
       IN
       IF all.k = "raise" THEN Throw(all.exc, all.sent, all.used, <<>>)
       ELSE Ret(nearby_search_text(p, all.data), all.sent, all.used, <<>>)

google_places_text_search_try(p, geo, ans) ==
  LET coords == IF p.location_bias = <<>> THEN Returned(<<>>, <<>>, <<>>)
                ELSE geocode_location(p.location_bias, geo)
  IN IF coords.k = "raise" THEN Throw(coords.exc, coords.sent, coords.used, <<>>)
     ELSE LET call == places_request(Request("POST", "places:searchText",
                                             IF coords.data # <<>> THEN {"textQuery", "locationBias"}
                                             ELSE {"textQuery"}), ans, "places")
              sent == coords.sent \o call.sent
              used == coords.used \o call.used
          IN IF call.k = "raise" THEN Throw(call.exc, sent, used, <<>>)
             ELSE LET places == places_get(call, "places") IN
                  IF places.k = "raise" THEN Throw(places.exc, sent, used, <<>>)
                  ELSE IF places.data = <<>>
                    THEN Ret(Msg("No results found for query: '{}'", <<"query">>), sent, used, <<>>)
                  ELSE Ret(places_size_guard("# Search Results: {query}",
                                             PlacesTextLen("# Search Results: {query}", places.data,
                                                           p.response_format),
                                             "[Response truncated - exceeded {} character limit. Try reducing max_results.]"),
                           sent, used, <<>>)

google_places_get_details_try(p, ans) ==
  LET call == places_request(Request("GET", "places/{place_id}", {}), ans, "reviews") IN
  IF call.k = "raise" THEN Throw(call.exc, call.sent, call.used, <<>>)
  ELSE LET reviews == places_get(call, "reviews") IN
       IF reviews.k = "raise" THEN Throw(reviews.exc, call.sent, call.used, <<>>)
       ELSE Ret(places_size_guard("# {name}",
                                  PlacesTextLen("# {name}", reviews.data, p.response_format),
                                  "[Response truncated - exceeded {} character limit. Try setting include_reviews=False or reducing max_reviews.]"),
                call.sent, call.used, <<>>)

google_routes_compute_route_try(p, ans) ==
  LET call == places_request(Request("POST", "directions/v2:computeRoutes", {"origin", "destination"}),
                             ans, "routes")
  IN IF call.k = "raise" THEN Throw(call.exc, call.sent, call.used, <<>>)
     ELSE LET routes == places_get(call, "routes") IN
          IF routes.k = "raise" THEN Throw(routes.exc, call.sent, call.used, <<>>)
          ELSE IF routes.data = <<>>
            THEN Ret(Msg("No route found between '{}' and '{}'", <<"origin", "destination">>),
                     call.sent, call.used, <<>>)
          ELSE IF routes.data[1].tag = "bad_duration"
            THEN Throw(Exc("ValueError", "invalid literal for int() with base 10"),
                       call.sent, call.used, <<>>)
          ELSE LET n == PlacesTextLen("# Route: {origin} -> {destination}", routes.data,
                                      p.response_format)
               IN Ret(TextResult("# Route: {origin} -> {destination}", n, 0, n),
                      call.sent, call.used, <<>>)

google_routes_compute_distance_matrix_try(p, ans) ==
  IF p.origins * p.destinations > 100
  THEN Ret(Msg("Error: Too many origin-destination combinations (max 100). Reduce the number of origins or destinations.", <<>>),
           <<>>, <<>>, <<>>)
  ELSE LET req == Request("POST", "distanceMatrix/v2:computeRouteMatrix", {"origins", "destinations"}) IN
       IF ans.k = "exc" THEN Throw(ans.exc, <<req>>, <<ans>>, <<>>)
       ELSE IF ans.k = "status" THEN Throw(StatusError(ans.status, ans.body), <<req>>, <<ans>>, <<>>)
       ELSE IF ans.shape = "not_json"
         THEN Throw(Exc("JSONDecodeError", "Expecting value: line 1 column 1 (char 0)"),
                    <<req>>, <<ans>>, <<>>)
       ELSE IF ans.shape = "bare_list"
         THEN Throw(Exc("AttributeError", "'list' object has no attribute 'get'"),
                    <<req>>, <<ans>>, <<>>)
       ELSE Ret(places_size_guard("# Distance Matrix",
                                  PlacesTextLen("# Distance Matrix", ans.items, p.response_format),
                                  "[Response truncated - exceeded {} character limit. Try reducing the number of origins or destinations.]"),
                <<req>>, <<ans>>, <<>>)

\* The try block of the two geocoding tools.
geocoding_try(req, ans, failure, title, p) ==
  LET call == places_request(req, ans, "results") IN
  IF call.k = "raise" THEN Throw(call.exc, call.sent, call.used, <<>>)
  ELSE LET results == places_get(call, "results") IN
       IF results.k = "raise" THEN Throw(results.exc, call.sent, call.used, <<>>)
       ELSE IF call.data.key # "results"
         THEN Ret(Msg(failure, <<"None">>), call.sent, call.used, <<>>)
       ELSE IF results.data = <<>>
         THEN Throw(Exc("IndexError", "list index out of range"), call.sent, call.used, <<>>)
       ELSE LET n == PlacesTextLen(title, <<results.data[1]>>, p.response_format) IN
            Ret(TextResult(title, n, 0, n), call.sent, call.used, <<>>)

google_geocoding_geocode_try(p, ans) ==
  geocoding_try(Request("GET", "geocode/json", {"address"}), ans,
                "Error: Could not geocode address '{address}'. Status: {}", "# Geocoding Result", p)

google_geocoding_reverse_geocode_try(p, ans) ==
  geocoding_try(Request("GET", "geocode/json", {"latlng"}), ans,
                "Error: Could not reverse geocode coordinates ({latitude}, {longitude}). Status: {}",
                "# Reverse Geocoding Result", p)

\* ------------------------------------------------------------- invocations
ResponseFormats == {"markdown", "json"}

\* the answers of the upstream to a request for a list
ListAnswers(lists) ==
  FailureAnswers
    \cup {Ok("list_in_envelope", l) : l \in lists}
    \cup {Ok("object", <<>>), Ok("bare_list", <<>>), Ok("not_json", <<>>)}

\* the answers of the upstream to a request for one object
ObjectAnswers ==
  FailureAnswers
    \cup {Ok("object", <<>>), Ok("list_in_envelope", <<>>), Ok("bare_list", <<>>),
          Ok("not_json", <<>>)}

AsanaListAnswers == ListAnswers(UNION {TaskLists(n) : n \in 0..MaxItems})

\* lists of small items, for the lists returned without size guard
PlainLists(tags) ==
  UNION { { [i \in 1..n |-> Item(i, [md |-> 150, js |-> 400], f[i])] : f \in [1..n -> tags] }
          : n \in 0..MaxItems }

NoParams == [none |-> TRUE]

\* The invocations followed request by request: two run in the process at
\* the same time.
Callers == {1, 2}
NoOutcome ==
  [result |-> NoResult, escaped |-> NoExc, caught |-> NoExc, sent |-> <<>>, used |-> <<>>,
   runs |-> <<>>]
\* an invocation that has not begun: stage is the statement it stands at,
\* pending tells that it awaits the answer to a request, todo and frame are
\* its loop and its local variables, log the requests it issued and the
\* answers it got in the order of the events
IdleCall ==
  [stage |-> "idle", tool |-> "none", p |-> NoParams, pending |-> FALSE, todo |-> <<>>,
   frame |-> [results_by_type |-> <<>>, total_count |-> 0, places |-> <<>>],
   sent |-> <<>>, used |-> <<>>, log |-> <<>>, out |-> NoOutcome,
   overlapped |-> FALSE]
NoTime == [year |-> 0]

\* the invocation of tool t with parameters p at time t0 ended as `out`
Finish(t, p, t0, out) ==
  /\ pc' = "done"
  /\ tool' = t
  /\ params' = p
  /\ now' = t0
  /\ upstream' = out.used
  /\ requests' = out.sent
  /\ result' = out.result
  /\ escaped' = out.escaped
  /\ caught' = out.caught
  /\ formatterRuns' = out.runs
  /\ UNCHANGED <<adapter, env, calls>>

Idle(a) == pc = "idle" /\ adapter = a

\* The parameter objects the invocations are drawn from.
OptStr == {None, "", "x"}
FormatOnly == [response_format : ResponseFormats]
WorkspaceParams == [workspace_gid : {None, "W1"}, response_format : ResponseFormats]
ListTasksParams ==
  [project_gid : {None, "P1"}, workspace_gid : {None, "W1"}, response_format : ResponseFormats]
UpdateTaskParams ==
  [name : OptStr, notes : {None, "x"}, assignee : {None, "x"}, due_on : {None, "x"},
   completed : {None, "True", "False"}]

asana_list_tasks ==
  /\ Idle("asana")
  /\ \E p \in ListTasksParams : \E ans \in AsanaListAnswers :
       Finish("asana_list_tasks", p, NoTime, asana_tool_boundary(asana_list_tasks_try(env, p, ans)))

asana_create_task ==
  /\ Idle("asana")
  /\ \E ans \in ObjectAnswers :
       Finish("asana_create_task", NoParams, NoTime, asana_tool_boundary(asana_create_task_try(env, NoParams, ans)))

asana_update_task ==
  /\ Idle("asana")
  /\ \E p \in UpdateTaskParams : \E ans \in ObjectAnswers :
       Finish("asana_update_task", p, NoTime, asana_tool_boundary(asana_update_task_try(env, p, ans)))

asana_complete_task ==
  /\ Idle("asana")
  /\ \E ans \in ObjectAnswers :
       Finish("asana_complete_task", NoParams, NoTime, asana_tool_boundary(asana_complete_task_try(env, NoParams, ans)))

asana_search_tasks ==
  /\ Idle("asana")
  /\ \E p \in WorkspaceParams : \E ans \in AsanaListAnswers :
       Finish("asana_search_tasks", p, NoTime, asana_tool_boundary(asana_search_tasks_try(env, p, ans)))

asana_list_projects ==
  /\ Idle("asana")
  /\ \E p \in WorkspaceParams : \E ans \in ListAnswers(PlainLists({"none"})) :
       Finish("asana_list_projects", p, NoTime, asana_tool_boundary(asana_list_projects_try(env, p, ans)))

asana_get_project_tasks ==
  /\ Idle("asana")
  /\ \E p \in FormatOnly : \E ans \in AsanaListAnswers :
       Finish("asana_get_project_tasks", p, NoTime, asana_tool_boundary(asana_get_project_tasks_try(env, p, ans)))

asana_add_comment ==
  /\ Idle("asana")
  /\ \E ans \in ObjectAnswers :
       Finish("asana_add_comment", NoParams, NoTime, asana_tool_boundary(asana_add_comment_try(env, NoParams, ans)))

asana_get_task_comments ==
  /\ Idle("asana")
  /\ \E ans \in ListAnswers(PlainLists({"comment", "system"})) :
       Finish("asana_get_task_comments", NoParams, NoTime, asana_tool_boundary(asana_get_task_comments_try(env, NoParams, ans)))

asana_list_sections ==
  /\ Idle("asana")
  /\ \E p \in FormatOnly : \E ans \in ListAnswers(PlainLists({"none"})) :
       Finish("asana_list_sections", p, NoTime, asana_tool_boundary(asana_list_sections_try(env, p, ans)))

asana_move_task_to_section ==
  /\ Idle("asana")
  /\ \E ans \in ObjectAnswers :
       Finish("asana_move_task_to_section", NoParams, NoTime, asana_tool_boundary(asana_move_task_to_section_try(env, NoParams, ans)))

asana_add_subtask ==
  /\ Idle("asana")
  /\ \E ans \in ObjectAnswers :
       Finish("asana_add_subtask", NoParams, NoTime, asana_tool_boundary(asana_add_subtask_try(env, NoParams, ans)))

asana_get_task_details ==
  /\ Idle("asana")
  /\ \E ans \in ObjectAnswers :
       Finish("asana_get_task_details", NoParams, NoTime, asana_tool_boundary(asana_get_task_details_try(env, NoParams, ans)))

asana_list_tags ==
  /\ Idle("asana")
  /\ \E p \in WorkspaceParams : \E ans \in ListAnswers(PlainLists({"none"})) :
       Finish("asana_list_tags", p, NoTime, asana_tool_boundary(asana_list_tags_try(env, p, ans)))

asana_add_tag_to_task ==
  /\ Idle("asana")
  /\ \E ans \in ObjectAnswers :
       Finish("asana_add_tag_to_task", NoParams, NoTime, asana_tool_boundary(asana_add_tag_to_task_try(env, NoParams, ans)))

asana_set_due_date ==
  /\ Idle("asana")
  /\ \E ans \in ObjectAnswers :
       Finish("asana_set_due_date", NoParams, NoTime, asana_tool_boundary(asana_set_due_date_try(env, NoParams, ans)))

asana_assign_task ==
  /\ Idle("asana")
  /\ \E ans \in ObjectAnswers :
       Finish("asana_assign_task", NoParams, NoTime, asana_tool_boundary(asana_assign_task_try(env, NoParams, ans)))

asana_get_user_task_list ==
  /\ Idle("asana")
  /\ \E ans \in ObjectAnswers :
       Finish("asana_get_user_task_list", NoParams, NoTime, asana_tool_boundary(asana_get_user_task_list_try(env, NoParams, ans)))

AsanaNext ==
  \/ asana_list_tasks
  \/ asana_create_task
  \/ asana_update_task
  \/ asana_complete_task
  \/ asana_search_tasks
  \/ asana_list_projects
  \/ asana_get_project_tasks
  \/ asana_add_comment
  \/ asana_get_task_comments
  \/ asana_list_sections
  \/ asana_move_task_to_section
  \/ asana_add_subtask
  \/ asana_get_task_details
  \/ asana_list_tags
  \/ asana_add_tag_to_task
  \/ asana_set_due_date
  \/ asana_assign_task
  \/ asana_get_user_task_list

\* ---------------------------------------------------- Calendar invocations
EventKinds ==
  {[size |-> z, tag |-> "timed"] : z \in ItemSizes}
    \cup {[size |-> [md |-> 150, js |-> 400], tag |-> t] : t \in EventTags \ {"timed"}}

\* the event lists of length n the upstream can return
EventLists(n) ==
  { [i \in 1..n |-> Item(i, f[i].size, f[i].tag)] : f \in [1..n -> EventKinds] }

GcalListAnswers ==
  ListAnswers(UNION {EventLists(n) : n \in 0..MaxItems}) \cup {Ok("no_content", <<>>)}

GcalObjectAnswers == ObjectAnswers \cup {Ok("no_content", <<>>)}

\* a few answers of each kind, for the handlers with many parameters
FewAnswers ==
  { Ok("object", <<>>), Ok("bare_list", <<>>), Ok("not_json", <<>>),
    Ok("list_in_envelope", <<Item(1, [md |-> 150, js |-> 400], "timed")>>),
    Status(404, "upstream error text"), Status(500, ""), Failed(Exc("ReadTimeout", "read timed out")) }

\* the times of day the clock is read at
Clocks == { <<0, 0, 0, 0>>, <<13, 5, 9, 250000>>, <<23, 59, 59, 999999>> }

\* what datetime.now(ZoneInfo("UTC")) can return on the days of year y
NowsOfYear(y) ==
  UNION { UNION { { DateTime(y, m, d, c[1], c[2], c[3], c[4], <<0>>) : c \in Clocks }
                  : d \in 1..DaysInMonth(y, m) } : m \in 1..12 }

Nows == UNION { NowsOfYear(2022 + i) : i \in 1..MaxYears }

SomeNows ==
  { DateTime(2024, 3, 15, 13, 5, 9, 250000, <<0>>),
    DateTime(2024, 12, 31, 23, 59, 59, 999999, <<0>>) }

TimeRanges == {"today", "tomorrow", "this_week", "next_week", "this_month", "custom"}

\* the values of start_date and end_date
DateInputs ==
  { StrNone, StrEmpty, StrNotIso,
    IsoText(<<2024, 1, 15>>, <<10, 0, 0>>, <<>>, "Z"),
    IsoText(<<2024, 1, 20>>, <<18, 30, 0>>, <<>>, "+02:00"),
    IsoText(<<2024, 1, 10>>, <<>>, <<>>, "") }

ListEventsParams ==
  [time_range : TimeRanges, start_date : DateInputs, end_date : DateInputs,
   response_format : {"markdown"}]

ListEventsDefaults ==
  [time_range : {"this_week", "custom"}, start_date : {StrNone}, end_date : {StrNone},
   response_format : ResponseFormats]

UpdateEventParams ==
  [summary : OptStr, description : {None, "x"}, location : {None}, status : {None, "confirmed"},
   start_datetime : OptStr, end_datetime : {None, "x"}, timezone : {None, "x"}]

gcal_list_events ==
  /\ Idle("gcal")
  /\ \/ \E p \in ListEventsDefaults : \E ans \in GcalListAnswers : \E t0 \in SomeNows :
          Finish("gcal_list_events", p, t0, gcal_tool_boundary(gcal_list_events_try(env, p, ans, t0)))
     \/ \E p \in ListEventsParams : \E ans \in FewAnswers : \E t0 \in SomeNows :
          Finish("gcal_list_events", p, t0, gcal_tool_boundary(gcal_list_events_try(env, p, ans, t0)))

\* the start and the end of the event to create: ISO strings with an offset
CreateEventParams ==
  [start_datetime : { IsoText(<<2024, 1, 15>>, <<10, 0, 0>>, <<>>, "Z"),
                      IsoText(<<2024, 1, 15>>, <<11, 0, 0>>, <<>>, "Z"),
                      IsoText(<<2024, 1, 15>>, <<12, 30, 0>>, <<>>, "+02:00") },
   end_datetime : { IsoText(<<2024, 1, 15>>, <<10, 0, 0>>, <<>>, "Z"),
                    IsoText(<<2024, 1, 15>>, <<11, 0, 0>>, <<>>, "Z"),
                    IsoText(<<2024, 1, 16>>, <<9, 0, 0>>, <<>>, "Z") },
   all_day : BOOLEAN]

gcal_create_event ==
  /\ Idle("gcal")
  /\ \E p \in CreateEventParams : \E ans \in GcalObjectAnswers :
       Finish("gcal_create_event", p, NoTime, gcal_tool_boundary(gcal_create_event_try(env, p, ans)))

gcal_update_event ==
  /\ Idle("gcal")
  /\ \E p \in UpdateEventParams : \E existing \in FewAnswers : \E ans \in FewAnswers :
       Finish("gcal_update_event", p, NoTime,
                 gcal_tool_boundary(gcal_update_event_try(env, p, existing, ans)))

gcal_delete_event ==
  /\ Idle("gcal")
  /\ \E ans \in GcalObjectAnswers :
       Finish("gcal_delete_event", NoParams, NoTime, gcal_tool_boundary(gcal_delete_event_try(env, NoParams, ans)))

gcal_search_events ==
  /\ Idle("gcal")
  /\ \E p \in FormatOnly : \E ans \in GcalListAnswers :
       Finish("gcal_search_events", p, NoTime, gcal_tool_boundary(gcal_search_events_try(env, p, ans)))

gcal_check_availability ==
  /\ Idle("gcal")
  /\ \E p \in FormatOnly : \E ans \in ListAnswers(PlainLists({"timed", "bad_time"})) :
       Finish("gcal_check_availability", p, NoTime,
                 gcal_tool_boundary(gcal_check_availability_try(env, p, ans)))

GcalNext ==
  \/ gcal_list_events
  \/ gcal_create_event
  \/ gcal_update_event
  \/ gcal_delete_event
  \/ gcal_search_events
  \/ gcal_check_availability

\* -------------------------------------------------- Perplexity invocations
\* a completion whose content has the length of an item
PerplexityAnswers ==
  FailureAnswers
    \cup {Ok("list_in_envelope", <<Item(1, z, "none")>>) : z \in ItemSizes}
    \cup {Ok("list_in_envelope", <<>>), Ok("object", <<>>), Ok("bare_list", <<>>),
          Ok("not_json", <<>>)}

perplexity_ask ==
  /\ Idle("perplexity")
  /\ \E ans \in PerplexityAnswers :
       Finish("perplexity_ask", NoParams, NoTime, perplexity_tool_boundary(perplexity_ask_try(env, NoParams, ans)))

perplexity_search ==
  /\ Idle("perplexity")
  /\ \E ans \in PerplexityAnswers :
       Finish("perplexity_search", NoParams, NoTime,
                 perplexity_tool_boundary(perplexity_search_try(env, NoParams, ans)))

perplexity_research ==
  /\ Idle("perplexity")
  /\ \E ans \in PerplexityAnswers :
       Finish("perplexity_research", NoParams, NoTime,
                 perplexity_tool_boundary(perplexity_research_try(env, NoParams, ans)))

perplexity_reason ==
  /\ Idle("perplexity")
  /\ \E ans \in PerplexityAnswers :
       Finish("perplexity_reason", NoParams, NoTime,
                 perplexity_tool_boundary(perplexity_reason_try(env, NoParams, ans)))

PerplexityNext ==
  \/ perplexity_ask
  \/ perplexity_search
  \/ perplexity_research
  \/ perplexity_reason

\* ------------------------------------------------------ Places invocations
PlaceLists == UNION {TaskLists(n) : n \in 0..MaxPlaces}

PlacesAnswers == ListAnswers(PlaceLists)

\* the answers of the geocoding API to _geocode_location
GeoAnswers ==
  { Ok("list_in_envelope", <<Item(1, [md |-> 150, js |-> 400], "none")>>),
    Ok("list_in_envelope", <<>>), Ok("bare_list", <<>>),
    Status(403, "upstream error text"), Failed(Exc("ConnectError", "connection refused")) }

\* a place of a searchNearby response: dist is the distance the Haversine
\* formula gives between its location and the search centre, in miles
Place(i, size, dist) ==
  [gid |-> i, md |-> size.md, js |-> size.js, tag |-> "none", dist |-> dist]

\* the answers of the Places API to one searchNearby request
SearchAnswers ==
  { Ok("list_in_envelope", <<Place(1, [md |-> 150, js |-> 400], 3)>>),
    Ok("list_in_envelope", <<Place(1, [md |-> 150, js |-> 400], 2),
                             Place(2, [md |-> 150, js |-> 400], 5)>>),
    Ok("list_in_envelope", <<Place(1, [md |-> 150, js |-> 400], 5),
                             Place(2, [md |-> 150, js |-> 400], 2)>>),
    Ok("list_in_envelope", <<Place(1, [md |-> 26000, js |-> 30000], 1)>>),
    Ok("list_in_envelope", <<>>), Ok("bare_list", <<>>), Ok("not_json", <<>>),
    Status(429, ""), Failed(Exc("ReadTimeout", "read timed out")) }

\* the values of place_types
PlaceTypeLists == { <<"hospital">>, <<"hospital", "pharmacy">>, <<"hospital", "hospital">> }

RouteAnswers ==
  FailureAnswers
    \cup { Ok("list_in_envelope", <<Item(1, [md |-> 150, js |-> 400], "none")>>),
           Ok("list_in_envelope", <<Item(1, [md |-> 150, js |-> 400], "bad_duration")>>),
           Ok("list_in_envelope", <<>>), Ok("object", <<>>), Ok("bare_list", <<>>),
           Ok("not_json", <<>>) }

NearbySearchParams ==
  [location : Locations, place_types : PlaceTypeLists, response_format : ResponseFormats]
TextSearchParams ==
  [location_bias : {<<>>} \cup Locations, response_format : ResponseFormats]
DistanceMatrixParams ==
  [origins : {1, 10, 25}, destinations : {1, 10, 25}, response_format : ResponseFormats]

google_places_nearby_search ==
  /\ Idle("places")
  /\ \E p \in NearbySearchParams : \E geo \in GeoAnswers : \E answers \in [1..Len(p.place_types) -> SearchAnswers] :
       Finish("google_places_nearby_search", p, NoTime,
                 places_tool_boundary(env, google_places_nearby_search_try(p, geo, answers)))

google_places_text_search ==
  /\ Idle("places")
  /\ \E p \in TextSearchParams : \E geo \in GeoAnswers : \E ans \in PlacesAnswers :
       Finish("google_places_text_search", p, NoTime,
                 places_tool_boundary(env, google_places_text_search_try(p, geo, ans)))

google_places_get_details ==
  /\ Idle("places")
  /\ \E p \in FormatOnly : \E ans \in PlacesAnswers :
       Finish("google_places_get_details", p, NoTime,
                 places_tool_boundary(env, google_places_get_details_try(p, ans)))

google_routes_compute_route ==
  /\ Idle("places")
  /\ \E p \in FormatOnly : \E ans \in RouteAnswers :
       Finish("google_routes_compute_route", p, NoTime,
                 places_tool_boundary(env, google_routes_compute_route_try(p, ans)))

google_routes_compute_distance_matrix ==
  /\ Idle("places")
  /\ \E p \in DistanceMatrixParams : \E ans \in PlacesAnswers :
       Finish("google_routes_compute_distance_matrix", p, NoTime,
                 places_tool_boundary(env, google_routes_compute_distance_matrix_try(p, ans)))

google_geocoding_geocode ==
  /\ Idle("places")
  /\ \E p \in FormatOnly : \E ans \in PlacesAnswers :
       Finish("google_geocoding_geocode", p, NoTime,
                 places_tool_boundary(env, google_geocoding_geocode_try(p, ans)))

google_geocoding_reverse_geocode ==
  /\ Idle("places")
  /\ \E p \in FormatOnly : \E ans \in PlacesAnswers :
       Finish("google_geocoding_reverse_geocode", p, NoTime,
                 places_tool_boundary(env, google_geocoding_reverse_geocode_try(p, ans)))

PlacesNext ==
  \/ google_places_nearby_search
  \/ google_places_text_search
  \/ google_places_get_details
  \/ google_routes_compute_route
  \/ google_routes_compute_distance_matrix
  \/ google_geocoding_geocode
  \/ google_geocoding_reverse_geocode

\* ================================================================ Maps
\* A result of the Maps and Medicare tools is a dict: its status, its error
\* text (a format string with its arguments), the list it carries and the
\* count it reports.
DictResult(status, error, items, total) ==
  [kind |-> "dict", status |-> status, error |-> error, items |-> items, total |-> total]
NoError == Msg("", <<>>)

\* except Exception as e: return {"status": "error", "error": str(e)}
maps_tool_boundary(body) ==
  IF body.k = "ret" THEN Done(body.data, body.sent, body.used, body.runs)
  ELSE Caught(body.exc, DictResult("error", Msg("{}", <<body.exc.text>>), <<>>, 0),
              body.sent, body.used, body.runs)

\* a call of the googlemaps client: it returns what the API answered or
\* raises
maps_call(req, ans) ==
  IF ans.k = "exc" THEN Raised(ans.exc, <<req>>, <<ans>>)
  ELSE Returned(ans.items, <<req>>, <<ans>>)

\* the answers to gmaps.distance_matrix for one place: the element has status
\* OK and a distance, or another status, or the call raises
Distance(d) == [k |-> "ok", exc |-> NoExc, status |-> 200, body |-> "OK", shape |-> "object",
                items |-> <<d>>]
NoDistance == [k |-> "ok", exc |-> NoExc, status |-> 200, body |-> "ZERO_RESULTS",
               shape |-> "object", items |-> <<>>]

\* a place of gmaps.places_nearby; geometry tells whether it has the key
NearbyPlace(i, geometry) == [gid |-> i, geometry |-> geometry, distance_miles |-> <<>>]

\* x.get('distance_miles', float('inf')) <= y.get('distance_miles', float('inf'))
distance_key_le(x, y) ==
  \/ y.distance_miles = <<>>
  \/ x.distance_miles # <<>> /\ x.distance_miles[1] <= y.distance_miles[1]

RECURSIVE insert_by_distance(_, _)
\* place x put behind the last place of the sorted list that is not after it
insert_by_distance(sorted, x) ==
  IF sorted = <<>> THEN <<x>>
  ELSE IF distance_key_le(sorted[Len(sorted)], x) THEN Append(sorted, x)
  ELSE Append(insert_by_distance(SubSeq(sorted, 1, Len(sorted) - 1), x), sorted[Len(sorted)])

RECURSIVE sort_by_distance_from(_, _)
sort_by_distance_from(sorted, rest) ==
  IF rest = <<>> THEN sorted
  ELSE sort_by_distance_from(insert_by_distance(sorted, Head(rest)), Tail(rest))

\* a search that returns the places as they were found
sort_by_distance_unsorted(places) == places

\* places.sort(key=lambda x: x.get('distance_miles', float('inf'))): a stable
\* sort
sort_by_distance(places) == sort_by_distance_from(<<>>, places)

RECURSIVE search_nearby_each(_, _, _, _, _)
\* for place in places_result.get('results', [])[:limit]: one distance_matrix
\* call each
search_nearby_each(places, distances, sent, used, found) ==
  IF places = <<>> THEN Returned(found, sent, used)
  ELSE IF ~Head(places).geometry THEN Raised(Exc("KeyError", "'geometry'"), sent, used)
  ELSE LET call == maps_call(Request("GET", "distancematrix", {}), Head(distances)) IN
       IF call.k = "raise" THEN Raised(call.exc, sent \o call.sent, used \o call.used)
       ELSE search_nearby_each(Tail(places), Tail(distances), sent \o call.sent,
                               used \o call.used,
                               Append(found,
                                      IF Head(distances).body = "OK"
                                      THEN [Head(places) EXCEPT !.distance_miles = call.data]
                                      ELSE Head(places)))

\* the try block of search_nearby
search_nearby_try(p, geo, nearby, distances) ==
  LET geocode_result == maps_call(Request("GET", "geocode", {}), geo) IN
  IF geocode_result.k = "raise"
  THEN Throw(geocode_result.exc, geocode_result.sent, geocode_result.used, <<>>)
  ELSE IF geocode_result.data = <<>>
    THEN Ret(DictResult("error", Msg("Could not geocode location: {}", <<"location">>), <<>>, 0),
             geocode_result.sent, geocode_result.used, <<>>)
  ELSE LET places_result == maps_call(Request("GET", "place/nearbysearch", {}), nearby)
           sent == geocode_result.sent \o places_result.sent
           used == geocode_result.used \o places_result.used
       IN IF places_result.k = "raise" THEN Throw(places_result.exc, sent, used, <<>>)
          ELSE LET limited == SubSeq(places_result.data, 1,
                                     IF p.limit < Len(places_result.data) THEN p.limit
                                     ELSE Len(places_result.data))
                   each == search_nearby_each(limited, distances, sent, used, <<>>)
               IN IF each.k = "raise" THEN Throw(each.exc, each.sent, each.used, <<>>)
                  ELSE Ret(DictResult("success", NoError, sort_by_distance(each.data),
                                      Len(each.data)),
                           each.sent, each.used, <<>>)

\* A time_of_day string: None, or a text given by its lower-case form and,
\* when it is written with digits, by the numbers and the separator that
\* the pattern "%Y-%m-%d %H:%M" has to match.
NoTimeOfDay == [s |-> "none", lower |-> "", date |-> <<>>, sep |-> "", clock |-> <<>>]
Word(lower) == [s |-> "text", lower |-> lower, date |-> <<>>, sep |-> "", clock |-> <<>>]
Stamp(date, sep, clock) ==
  [s |-> "text", lower |-> "y-m-d h:m", date |-> date, sep |-> sep, clock |-> clock]

TimesOfDay ==
  { NoTimeOfDay, Word(""), Word("now"), Word("tomorrow morning"),
    Stamp(<<2024, 3, 15>>, " ", <<8, 30>>), Stamp(<<2024, 2, 29>>, " ", <<23, 59>>),
    Stamp(<<2023, 2, 29>>, " ", <<10, 0>>), Stamp(<<2024, 13, 1>>, " ", <<10, 0>>),
    Stamp(<<2024, 3, 15>>, " ", <<24, 0>>), Stamp(<<2024, 3, 15>>, " ", <<8, 60>>),
    Stamp(<<2024, 3, 15>>, "T", <<8, 30>>), Stamp(<<2024, 3, 15>>, "", <<>>) }

\* a parser that takes every stamp for a time
strptime_fails_never(t) == FALSE

\* datetime.strptime(time_of_day, "%Y-%m-%d %H:%M") raises ValueError
strptime_fails(t) ==
  \/ t.date = <<>>
  \/ t.sep # " "
  \/ t.clock = <<>>
  \/ t.date[2] \notin 1..12
  \/ t.date[3] \notin 1..DaysInMonth(t.date[1], t.date[2])
  \/ t.clock[1] \notin 0..23
  \/ t.clock[2] \notin 0..59

\* the try block of get_drive_time
get_drive_time_try(p, ans) ==
  IF /\ p.time_of_day.s = "text" /\ p.time_of_day.lower # ""
     /\ p.time_of_day.lower # "now"
     /\ strptime_fails(p.time_of_day)
  THEN Ret(DictResult("error", Msg("Invalid time_of_day format. Use 'YYYY-MM-DD HH:MM' or 'now'", <<>>),
                      <<>>, 0), <<>>, <<>>, <<>>)
  ELSE LET result_ == maps_call(Request("GET", "directions", {}), ans) IN
       IF result_.k = "raise" THEN Throw(result_.exc, result_.sent, result_.used, <<>>)
       ELSE IF result_.data = <<>>
         THEN Ret(DictResult("error", Msg("No route found", <<>>), <<>>, 0),
                  result_.sent, result_.used, <<>>)
       ELSE IF result_.data[1].tag = "no_legs"
         THEN Throw(Exc("IndexError", "list index out of range"), result_.sent, result_.used, <<>>)
       ELSE Ret(DictResult("success", NoError, <<>>, 0), result_.sent, result_.used, <<>>)

\* ============================================================ Medicare
\* the classes of requests.RequestException the tools can meet
RequestExceptions == {"Timeout", "ConnectionError", "HTTPError", "JSONDecodeError"}

\* requests.get(QUALITY_ENDPOINT, ...), raise_for_status(), response.json()
medicare_get(req, ans) ==
  IF ans.k = "exc" THEN Raised(ans.exc, <<req>>, <<ans>>)
  ELSE IF ans.k = "status"
    THEN Raised(Exc("HTTPError", "Server Error for url"), <<req>>, <<ans>>)
  ELSE IF ans.shape = "not_json"
    THEN Raised(Exc("JSONDecodeError", "Expecting value: line 1 column 1 (char 0)"), <<req>>, <<ans>>)
  ELSE Returned(Decoded(ans, "results"), <<req>>, <<ans>>)

\* except requests.RequestException as e: ... except Exception as e: ...
medicare_tool_boundary(body) ==
  IF body.k = "ret" THEN Done(body.data, body.sent, body.used, body.runs)
  ELSE IF body.exc.cls \in RequestExceptions
    THEN Caught(body.exc, DictResult("error", Msg("API request failed: {}", <<body.exc.text>>), <<>>, 0),
                body.sent, body.used, body.runs)
  ELSE Caught(body.exc, DictResult("error", Msg("{}", <<body.exc.text>>), <<>>, 0),
              body.sent, body.used, body.runs)

\* data.get('results', []) on the decoded body
medicare_results(call) ==
  IF call.data.type = "list"
  THEN Raised(Exc("AttributeError", "'list' object has no attribute 'get'"), call.sent, call.used)
  ELSE Returned(DictGetList(call.data, "results"), call.sent, call.used)

\* the try block of search_hospitals
search_hospitals_try(p, ans) ==
  IF Falsy(p.zip_code) /\ ~(~Falsy(p.city) /\ ~Falsy(p.state))
  THEN Ret(DictResult("error", Msg("Must provide either zip_code or both city and state", <<>>),
                      <<>>, 0), <<>>, <<>>, <<>>)
  ELSE LET call == medicare_get(Request("GET", "datastore/query/4pq5-n9py",
                                        {f \in {"zip_code", "state", "city"} : ~Falsy(p[f])}
                                          \cup {"limit"}), ans)
       IN IF call.k = "raise" THEN Throw(call.exc, call.sent, call.used, <<>>)
          ELSE LET results == medicare_results(call) IN
               IF results.k = "raise" THEN Throw(results.exc, call.sent, call.used, <<>>)
               ELSE Ret(DictResult("success", NoError, results.data, Len(results.data)),
                        call.sent, call.used, <<>>)

\* get_hospital_quality_measures, the whole function: what it returns and
\* the request it made
get_hospital_quality_measures_call(provider_id, ans) ==
  LET call == medicare_get(Request("GET", "datastore/query/4pq5-n9py", {"facility_id"}), ans)
      results == medicare_results(call)
  IN medicare_tool_boundary(
       IF call.k = "raise" THEN Throw(call.exc, call.sent, call.used, <<>>)
       ELSE IF results.k = "raise" THEN Throw(results.exc, call.sent, call.used, <<>>)
       ELSE IF results.data = <<>>
         THEN Ret(DictResult("not_found",
                             Msg("No hospital found with Medicare Provider ID: {}", <<provider_id>>),
                             <<>>, 0), call.sent, call.used, <<>>)
       ELSE Ret(DictResult("success", NoError, <<results.data[1]>>, 1),
                call.sent, call.used, <<>>))

\* an entry of the comparison
Comparison(provider_id, found) ==
  [medicare_provider_id |-> provider_id,
   hospital_name |-> IF found THEN "facility_name" ELSE "Not Found",
   error |-> IF found THEN "" ELSE "Hospital data not available"]

RECURSIVE compare_each_found_only(_, _, _, _, _)
\* a loop that leaves out the hospitals it could not read
compare_each_found_only(hospital_ids, answers, sent, used, comparisons) ==
  IF hospital_ids = <<>> THEN Returned(comparisons, sent, used)
  ELSE LET out == get_hospital_quality_measures_call(Head(hospital_ids), Head(answers)) IN
       compare_each_found_only(Tail(hospital_ids), Tail(answers), sent \o out.sent,
                               used \o out.used,
                               IF out.result.status = "success"
                               THEN Append(comparisons, Comparison(Head(hospital_ids), TRUE))
                               ELSE comparisons)

RECURSIVE compare_each(_, _, _, _, _)
\* for provider_id in hospital_ids: one call of get_hospital_quality_measures
compare_each(hospital_ids, answers, sent, used, comparisons) ==
  IF hospital_ids = <<>> THEN Returned(comparisons, sent, used)
  ELSE LET out == get_hospital_quality_measures_call(Head(hospital_ids), Head(answers)) IN
       compare_each(Tail(hospital_ids), Tail(answers), sent \o out.sent, used \o out.used,
                    Append(comparisons,
                           Comparison(Head(hospital_ids), out.result.status = "success")))

\* the try block of compare_hospitals
compare_hospitals_try(p, answers) ==
  IF Len(p.hospital_ids) > 5
  THEN Ret(DictResult("error", Msg("Maximum 5 hospitals can be compared at once", <<>>), <<>>, 0),
           <<>>, <<>>, <<>>)
  ELSE LET each == compare_each(p.hospital_ids, answers, <<>>, <<>>, <<>>) IN
       Ret(DictResult("success", NoError, each.data, Len(each.data)), each.sent, each.used, <<>>)

\* -------------------------------------------- Maps and Medicare invocations
\* what a call of the googlemaps client can raise
MapsFailures ==
  { Failed(Exc("ApiError", "REQUEST_DENIED")), Failed(Exc("Timeout", "")),
    Failed(Exc("TransportError", "connection refused")) }

MapsGeoAnswers ==
  { Ok("bare_list", <<Item(1, [md |-> 150, js |-> 400], "none")>>), Ok("bare_list", <<>>),
    Failed(Exc("Timeout", "")) }

NearbyPlaceLists ==
  { [i \in 1..n |-> NearbyPlace(i, TRUE)] : n \in 0..(MaxPlaces + 1) }
    \cup { <<NearbyPlace(1, TRUE), NearbyPlace(2, FALSE)>> }

NearbyAnswers == {Ok("list_in_envelope", l) : l \in NearbyPlaceLists} \cup MapsFailures

DistanceAnswers == { Distance(2), Distance(5), NoDistance, Failed(Exc("Timeout", "")) }

DirectionsAnswers ==
  { Ok("bare_list", <<Item(1, [md |-> 150, js |-> 400], "none")>>),
    Ok("bare_list", <<Item(1, [md |-> 150, js |-> 400], "no_legs")>>),
    Ok("bare_list", <<>>) } \cup MapsFailures

SearchNearbyParams == [limit : {1, 20}]
DriveTimeParams == [time_of_day : TimesOfDay]

search_nearby ==
  /\ Idle("maps")
  /\ \E p \in SearchNearbyParams : \E geo \in MapsGeoAnswers : \E nearby \in NearbyAnswers :
       \E distances \in [1..(MaxPlaces + 1) -> DistanceAnswers] :
          Finish("search_nearby", p, NoTime,
                 maps_tool_boundary(search_nearby_try(p, geo, nearby, distances)))

get_drive_time ==
  /\ Idle("maps")
  /\ \E p \in DriveTimeParams : \E ans \in DirectionsAnswers :
       Finish("get_drive_time", p, NoTime, maps_tool_boundary(get_drive_time_try(p, ans)))

MapsNext == search_nearby \/ get_drive_time

\* the answers of data.cms.gov
MedicareAnswers ==
  { Ok("list_in_envelope", <<>>),
    Ok("list_in_envelope", <<Item(1, [md |-> 150, js |-> 400], "none")>>),
    Ok("list_in_envelope", <<Item(1, [md |-> 150, js |-> 400], "none"),
                             Item(2, [md |-> 150, js |-> 400], "none")>>),
    Ok("bare_list", <<>>), Ok("not_json", <<>>), Status(404, ""), Status(500, ""),
    Failed(Exc("Timeout", "Read timed out. (read timeout=10)")),
    Failed(Exc("ConnectionError", "Max retries exceeded")) }

CompareAnswers ==
  { Ok("list_in_envelope", <<Item(1, [md |-> 150, js |-> 400], "none")>>),
    Ok("list_in_envelope", <<>>),
    Failed(Exc("Timeout", "Read timed out. (read timeout=10)")) }

SearchHospitalsParams ==
  [zip_code : {None, "", "31419"}, city : {None, "Savannah"}, state : {None, "GA"}]

\* the lists of provider ids: up to six different ones, or one id twice
HospitalIdLists ==
  { SubSeq(<<"110001", "110002", "110003", "110004", "110005", "110006">>, 1, n) : n \in 0..6 }
    \cup { <<"110001", "110001">> }

search_hospitals ==
  /\ Idle("medicare")
  /\ \E p \in SearchHospitalsParams : \E ans \in MedicareAnswers :
       Finish("search_hospitals", p, NoTime, medicare_tool_boundary(search_hospitals_try(p, ans)))

get_hospital_quality_measures ==
  /\ Idle("medicare")
  /\ \E ans \in MedicareAnswers :
       Finish("get_hospital_quality_measures", [medicare_provider_id |-> "110001"], NoTime,
              get_hospital_quality_measures_call("110001", ans))

compare_hospitals ==
  /\ Idle("medicare")
  /\ \E ids \in HospitalIdLists :
       \E answers \in [1..(IF Len(ids) > 5 THEN 0 ELSE Len(ids)) -> CompareAnswers] :
          Finish("compare_hospitals", [hospital_ids |-> ids], NoTime,
                 medicare_tool_boundary(compare_hospitals_try([hospital_ids |-> ids], answers)))

MedicareNext == search_hospitals \/ get_hospital_quality_measures \/ compare_hospitals

\* ------------------------------------------------------------ the process
CredentialOf(a) ==
  CASE a = "asana" -> "ASANA_ACCESS_TOKEN"
    [] a = "gcal" -> "GOOGLE_CALENDAR_ACCESS_TOKEN"
    [] a = "places" -> "GOOGLE_MAPS_API_KEY"
    [] a = "perplexity" -> "PERPLEXITY_API_KEY"

Adapters == {"asana", "gcal", "places", "perplexity"}

\* The Maps server does not start without GOOGLE_MAPS_API_KEY (the module
\* raises ValueError when it is imported); the Medicare server reads no
\* credential.
DataAdapters == {"maps", "medicare"}

Init ==
  /\ adapter \in Adapters \cup DataAdapters
  /\ env \in IF adapter \in Adapters THEN SUBSET {CredentialOf(adapter)}
            ELSE IF adapter = "maps" THEN {{"GOOGLE_MAPS_API_KEY"}}
            ELSE {{}}
  /\ pc = "idle"
  /\ tool = "none"
  /\ params = NoParams
  /\ now = NoTime
  /\ upstream = <<>>
  /\ requests = <<>>
  /\ result = NoResult
  /\ escaped = NoExc
  /\ caught = NoExc
  /\ formatterRuns = <<>>
  /\ calls = [c \in Callers |-> IdleCall]

Next == AsanaNext \/ GcalNext \/ PerplexityNext \/ PlacesNext \/ MapsNext \/ MedicareNext

Spec == Init /\ [][Next]_vars

\* ------------------------------------------------ the time range function
\* the calls of _get_time_range_bounds: a preset at any time of the years
\* covered, or a custom range
TimeInputs ==
  ((TimeRanges \ {"custom"}) \X {StrNone} \X {StrNone} \X Nows)
    \cup ({"custom"} \X DateInputs \X DateInputs \X SomeNows)

\* _get_time_range_bounds called on its own
time_range_bounds ==
  /\ Idle("gcal")
  /\ \E inp \in TimeInputs :
       LET bounds == get_time_range_bounds(inp[1], inp[2], inp[3], inp[4]) IN
       Finish("_get_time_range_bounds",
              [time_range |-> inp[1], start_date |-> inp[2], end_date |-> inp[3]], inp[4],
              IF bounds.k = "ret"
              THEN Done([kind |-> "bounds", start |-> bounds.data[1], end |-> bounds.data[2]],
                        <<>>, <<>>, <<>>)
              ELSE Escaped(bounds.exc, <<>>, <<>>, <<>>))

TimeNext == time_range_bounds

SpecTime == Init /\ [][TimeNext]_vars

\* ---------------------------------------------------- the error translator
\* the exception classes _handle_api_error can be handed
ExceptionClasses ==
  { "Exception", "ValueError", "JSONDecodeError", "AttributeError", "LookupError", "KeyError",
    "IndexError", "TypeError", "HTTPError", "RequestError", "TransportError",
    "TimeoutException", "ReadTimeout", "ConnectTimeout", "NetworkError", "ConnectError" }

Exceptions ==
  {Exc(c, "message") : c \in ExceptionClasses}
    \cup {StatusError(c, b) : c \in ErrorStatuses \cup {418, 503}, b \in ErrorBodies}

\* _handle_api_error of the adapter the process runs
handle_api_error_of(a, e) ==
  CASE a = "asana" -> asana_handle_api_error(e)
    [] a = "gcal" -> gcal_handle_api_error(e)
    [] a = "perplexity" -> perplexity_handle_api_error(e)
    [] a = "places" -> places_handle_api_error(e)

\* _handle_api_error called on its own
handle_api_error ==
  /\ pc = "idle"
  /\ adapter \in Adapters
  /\ \E e \in Exceptions :
       Finish("_handle_api_error", NoParams, NoTime,
              Caught(e, handle_api_error_of(adapter, e), <<>>, <<>>, <<>>))

ErrorsNext == handle_api_error

SpecErrors == Init /\ [][ErrorsNext]_vars

\* --------------------------------------------------- the report formatters
\* JSON values: a number, a string, a boolean, a list of values, or a dict
\* given by its members in insertion order.
JNum(n) == [t |-> "num", n |-> n, s |-> "", v |-> <<>>]
JStr(s) == [t |-> "str", n |-> 0, s |-> s, v |-> <<>>]
JBool(b) == [t |-> "bool", n |-> 0, s |-> IF b THEN "true" ELSE "false", v |-> <<>>]
JList(elements) == [t |-> "list", n |-> 0, s |-> "", v |-> elements]
JDict(members) == [t |-> "dict", n |-> 0, s |-> "", v |-> members]
Member(key, value) == [key |-> key, value |-> value]

\* The tokens of a JSON text; the white space that indent=2 puts between
\* them is left out.
Tok(k, n, s) == [k |-> k, n |-> n, s |-> s]
Punct(s) == Tok("punct", 0, s)

RECURSIVE json_dumps(_)
RECURSIVE json_dumps_elements(_)
RECURSIVE json_dumps_members(_)
\* the elements of a list, separated by commas
json_dumps_elements(elements) ==
  IF elements = <<>> THEN <<>>
  ELSE json_dumps(Head(elements))
         \o (IF Tail(elements) = <<>> THEN <<>> ELSE <<Punct(",")>>)
         \o json_dumps_elements(Tail(elements))

\* the members of a dict: key, colon, value, separated by commas
json_dumps_members(members) ==
  IF members = <<>> THEN <<>>
  ELSE <<Tok("str", 0, Head(members).key), Punct(":")>> \o json_dumps(Head(members).value)
         \o (IF Tail(members) = <<>> THEN <<>> ELSE <<Punct(",")>>)
         \o json_dumps_members(Tail(members))

\* json.dumps(value, indent=2)
json_dumps(value) ==
  IF value.t = "num" THEN <<Tok("num", value.n, "")>>
  ELSE IF value.t = "str" THEN <<Tok("str", 0, value.s)>>
  ELSE IF value.t = "bool" THEN <<Tok("lit", 0, value.s)>>
  ELSE IF value.t = "list" THEN <<Punct("[")>> \o json_dumps_elements(value.v) \o <<Punct("]")>>
  ELSE <<Punct("{")>> \o json_dumps_members(value.v) \o <<Punct("}")>>

\* d[key] = value while a JSON object is decoded: a key met again keeps its
\* place and takes the new value
json_object_set(members, key, value) ==
  IF \E i \in 1..Len(members) : members[i].key = key
  THEN [i \in 1..Len(members) |->
          IF members[i].key = key THEN Member(key, value) ELSE members[i]]
  ELSE Append(members, Member(key, value))

\* what the decoder has read and the tokens behind it
Parsed(value, rest) == [value |-> value, rest |-> rest]

RECURSIVE json_parse_value(_)
RECURSIVE json_parse_elements(_, _)
RECURSIVE json_parse_members(_, _)
\* the elements of a list up to its closing bracket
json_parse_elements(toks, elements) ==
  LET element == json_parse_value(toks) IN
  IF Head(element.rest) = Punct(",")
  THEN json_parse_elements(Tail(element.rest), Append(elements, element.value))
  ELSE Parsed(JList(Append(elements, element.value)), Tail(element.rest))

\* the members of an object up to its closing brace
json_parse_members(toks, members) ==
  LET member == json_parse_value(Tail(Tail(toks)))
      read == json_object_set(members, Head(toks).s, member.value)
  IN IF Head(member.rest) = Punct(",") THEN json_parse_members(Tail(member.rest), read)
     ELSE Parsed(JDict(read), Tail(member.rest))

\* one JSON value at the head of the tokens
json_parse_value(toks) ==
  LET tok == Head(toks) IN
  IF tok.k = "num" THEN Parsed(JNum(tok.n), Tail(toks))
  ELSE IF tok.k = "str" THEN Parsed(JStr(tok.s), Tail(toks))
  ELSE IF tok.k = "lit" THEN Parsed(JBool(tok.s = "true"), Tail(toks))
  ELSE IF tok = Punct("[")
    THEN IF Head(Tail(toks)) = Punct("]") THEN Parsed(JList(<<>>), Tail(Tail(toks)))
         ELSE json_parse_elements(Tail(toks), <<>>)
  ELSE IF Head(Tail(toks)) = Punct("}") THEN Parsed(JDict(<<>>), Tail(Tail(toks)))
  ELSE json_parse_members(Tail(toks), <<>>)

\* json.loads(text)
json_loads(toks) == json_parse_value(toks).value

\* the string a formatter returns: the lines of a Markdown report, which are
\* joined by "\n", or the tokens of a JSON text
Lines(lines) == [kind |-> "str", fmt |-> "markdown", lines |-> lines, tokens |-> <<>>]
Json(tokens) == [kind |-> "str", fmt |-> "json", lines |-> <<>>, tokens |-> tokens]

\* a task or an event as the upstream sent it
JsonItem(gid) ==
  JDict(<<Member("gid", JStr(ToString(gid))), Member("name", JStr("item " \o ToString(gid)))>>)

\* _format_task_markdown(task) and _format_event_markdown(event): the block
\* of an item, here its heading
format_item_markdown(item) == "## " \o item.v[2].value.s

\* a formatter that leaves the report of an empty list without its last line
format_tasks_response_str_no_placeholder(tasks, response_format, title) ==
  IF response_format = "markdown"
  THEN Lines(<<"# " \o title, "", "Found " \o ToString(Len(tasks)) \o " task(s)", "">>
               \o [i \in 1..Len(tasks) |-> format_item_markdown(tasks[i])])
  ELSE Json(json_dumps(JDict(<<Member("count", JNum(Len(tasks))),
                               Member("tasks", JList(tasks))>>)))

\* _format_tasks_response, character by character: the string it returns
format_tasks_response_str(tasks, response_format, title) ==
  IF response_format = "markdown"
  THEN Lines(<<"# " \o title, "", "Found " \o ToString(Len(tasks)) \o " task(s)", "">>
               \o (IF tasks = <<>> THEN <<"No tasks found.">>
                   ELSE [i \in 1..Len(tasks) |-> format_item_markdown(tasks[i])]))
  ELSE Json(json_dumps(JDict(<<Member("count", JNum(Len(tasks))),
                               Member("tasks", JList(tasks))>>)))

\* a formatter that reports the total, when it is given, as the count
format_events_response_str_count_total(events, response_format, total_count, has_more) ==
  IF response_format = "markdown"
  THEN Lines(<<"# Google Calendar Events", "">>
               \o <<IF total_count # <<>>
                    THEN "Found " \o ToString(total_count[1]) \o " events (showing "
                           \o ToString(Len(events)) \o ")"
                    ELSE "Found " \o ToString(Len(events)) \o " events">>
               \o (IF has_more
                   THEN <<"**Note**: More events available. Use pagination to see more.">>
                   ELSE <<>>)
               \o <<"">>
               \o (IF events = <<>> THEN <<"No events found.">>
                   ELSE [i \in 1..Len(events) |-> format_item_markdown(events[i])]))
  ELSE Json(json_dumps(JDict(
              <<Member("count", JNum(IF total_count # <<>> THEN total_count[1] ELSE Len(events))),
                Member("events", JList(events))>>
                \o (IF total_count # <<>> THEN <<Member("total", JNum(total_count[1]))>> ELSE <<>>)
                \o (IF has_more THEN <<Member("has_more", JBool(has_more))>> ELSE <<>>))))

\* _format_events_response for events that the Markdown rendering can read:
\* the string it returns; total_count is <<>> for None
format_events_response_str(events, response_format, total_count, has_more) ==
  IF response_format = "markdown"
  THEN Lines(<<"# Google Calendar Events", "">>
               \o <<IF total_count # <<>>
                    THEN "Found " \o ToString(total_count[1]) \o " events (showing "
                           \o ToString(Len(events)) \o ")"
                    ELSE "Found " \o ToString(Len(events)) \o " events">>
               \o (IF has_more
                   THEN <<"**Note**: More events available. Use pagination to see more.">>
                   ELSE <<>>)
               \o <<"">>
               \o (IF events = <<>> THEN <<"No events found.">>
                   ELSE [i \in 1..Len(events) |-> format_item_markdown(events[i])]))
  ELSE Json(json_dumps(JDict(
              <<Member("count", JNum(Len(events))), Member("events", JList(events))>>
                \o (IF total_count # <<>> THEN <<Member("total", JNum(total_count[1]))>> ELSE <<>>)
                \o (IF has_more THEN <<Member("has_more", JBool(has_more))>> ELSE <<>>))))

\* the item lists handed to the formatters: up to MaxItems items, the same
\* item more than once included
JsonItemLists ==
  UNION { [1..n -> {JsonItem(1), JsonItem(2)}] : n \in 0..MaxItems }

\* _format_tasks_response called on its own
format_tasks_response_call ==
  /\ Idle("asana")
  /\ \E tasks \in JsonItemLists : \E response_format \in ResponseFormats :
       \E title \in {"Asana Tasks", "My Tasks"} :
          Finish("_format_tasks_response",
                 [items |-> tasks, response_format |-> response_format, title |-> title,
                  total_count |-> <<>>, has_more |-> FALSE],
                 NoTime,
                 Done(format_tasks_response_str(tasks, response_format, title), <<>>, <<>>, <<>>))

\* _format_events_response called on its own
format_events_response_call ==
  /\ Idle("gcal")
  /\ \E events \in JsonItemLists : \E response_format \in ResponseFormats :
       \E total_count \in {<<>>} \cup {<<n>> : n \in Len(events)..MaxItems} :
          \E has_more \in BOOLEAN :
             Finish("_format_events_response",
                    [items |-> events, response_format |-> response_format,
                     title |-> "Google Calendar Events", total_count |-> total_count,
                     has_more |-> has_more],
                    NoTime,
                    Done(format_events_response_str(events, response_format, total_count, has_more),
                         <<>>, <<>>, <<>>))

FormatNext == format_tasks_response_call \/ format_events_response_call

SpecFormat == Init /\ [][FormatNext]_vars

\* ------------------------------------- the fan-out tools, request by request
\* The nearby searches of the Places and of the Maps adapter, followed from
\* one request to the next: an invocation issues a request, waits for the
\* answer and goes on to its next request or to its return, while another
\* invocation of the same process does the same.
CallStages == {"geocode", "search", "nearby", "distance"}

\* an entry of the log: a request issued or its answer received
Event(ev, call, subject) == [ev |-> ev, call |-> call, subject |-> subject]

\* an invocation that awaits no answer goes on to issue its next request
can_issue_unawaited(call) == TRUE

\* `await client.post(...)`, and the blocking calls of the googlemaps
\* client: the next request is issued when the answer to the last one is in
can_issue(call) == ~call.pending

\* results_by_type, total_count and places kept in one module-level variable
frame_owner_shared(c) == 1

\* results_by_type, total_count and places are local variables of the tool
\* function: every invocation has its own
frame_owner(c) == c

\* the locals of the Places search and of the Maps search
get_found(cs, c) ==
  Found(cs[frame_owner(c)].frame.results_by_type, cs[frame_owner(c)].frame.total_count)
set_found(cs, c, found) ==
  [cs EXCEPT ![frame_owner(c)].frame.results_by_type = found.results_by_type,
             ![frame_owner(c)].frame.total_count = found.total_count]
get_places(cs, c) == cs[frame_owner(c)].frame.places
set_places(cs, c, places) == [cs EXCEPT ![frame_owner(c)].frame.places = places]

\* the request the invocation issues at its stage, and what it is about
next_request(call) ==
  CASE call.stage = "geocode" /\ call.tool = "google_places_nearby_search" ->
         Request("GET", "geocode/json", {"address"})
    [] call.stage = "geocode" /\ call.tool = "search_nearby" -> Request("GET", "geocode", {})
    [] call.stage = "search" -> Request("POST", "places:searchNearby", {"includedTypes"})
    [] call.stage = "nearby" -> Request("GET", "place/nearbysearch", {})
    [] call.stage = "distance" -> Request("GET", "distancematrix", {})

next_subject(call) ==
  CASE call.stage = "geocode" -> "location"
    [] call.stage = "search" -> Head(call.todo)
    [] call.stage = "nearby" -> "location"
    [] call.stage = "distance" -> ToString(Head(call.todo).gid)

\* the invocation took a step while another one was between its first
\* statement and its return
Stepped(cs, c) ==
  [cs EXCEPT ![c].overlapped =
     @ \/ \E d \in Callers \ {c} : cs[d].stage \notin {"idle", "done"}]

\* the answer to the pending request is in
Answered(call) ==
  [call EXCEPT !.pending = FALSE,
               !.log = Append(@, Event("complete", call.stage, next_subject(call)))]

\* the invocation returns
Returns(call, out) ==
  [call EXCEPT !.stage = "done", !.todo = <<>>, !.sent = out.sent, !.used = out.used,
               !.out = out]

\* the inputs of the invocations that are followed request by request
StepNearbyParams ==
  [location : {<<Number(32), Number(-81)>>, <<Words>>}, place_types : PlaceTypeLists,
   response_format : {"markdown"}]
StepGeoAnswers ==
  { Ok("list_in_envelope", <<Item(1, [md |-> 150, js |-> 400], "none")>>),
    Ok("list_in_envelope", <<>>), Failed(Exc("ConnectError", "connection refused")) }
StepSearchAnswers ==
  { Ok("list_in_envelope", <<Place(1, [md |-> 150, js |-> 400], 5),
                             Place(2, [md |-> 150, js |-> 400], 2)>>),
    Ok("list_in_envelope", <<Place(1, [md |-> 150, js |-> 400], 3)>>),
    Failed(Exc("ReadTimeout", "read timed out")) }
StepNearbyAnswers ==
  { Ok("list_in_envelope", <<NearbyPlace(1, TRUE), NearbyPlace(2, TRUE)>>),
    Ok("list_in_envelope", <<NearbyPlace(1, TRUE), NearbyPlace(2, FALSE)>>),
    Ok("list_in_envelope", <<>>), Failed(Exc("Timeout", "")) }
StepDistanceAnswers == { Distance(5), Distance(2), NoDistance, Failed(Exc("Timeout", "")) }

\* results_by_type = {}; total_count = 0, and the loop over place_types
begin_search(cs, c, call) ==
  set_found([cs EXCEPT ![c] = [call EXCEPT !.stage = "search", !.todo = call.p.place_types]],
            c, Found(<<>>, 0))

\* google_places_nearby_search from its first statement to its first request
invoke_nearby_search ==
  /\ pc = "idle"
  /\ adapter = "places"
  /\ \E c \in Callers : \E p \in StepNearbyParams :
       LET call == [IdleCall EXCEPT !.tool = "google_places_nearby_search", !.p = p,
                                    !.frame = calls[c].frame,
                                    !.overlapped = calls[c].overlapped]
       IN /\ calls[c].stage = "idle"
          /\ calls' = Stepped(
               IF ~check_api_key(env)
               THEN [calls EXCEPT ![c] =
                       Returns(call, places_tool_boundary(env, Ret(NoResult, <<>>, <<>>, <<>>)))]
               ELSE IF literal_coordinates(p.location) THEN begin_search(calls, c, call)
               ELSE [calls EXCEPT ![c] = [call EXCEPT !.stage = "geocode"]], c)
  /\ UNCHANGED <<adapter, env, pc, tool, params, now, upstream, requests, result, escaped,
                 caught, formatterRuns>>

\* search_nearby from its first statement to its first request
invoke_search_nearby ==
  /\ pc = "idle"
  /\ adapter = "maps"
  /\ \E c \in Callers : \E p \in SearchNearbyParams :
       /\ calls[c].stage = "idle"
       /\ calls' = Stepped([calls EXCEPT ![c] =
                              [IdleCall EXCEPT !.tool = "search_nearby", !.p = p,
                                               !.stage = "geocode",
                                               !.frame = calls[c].frame,
                                               !.overlapped = calls[c].overlapped]], c)
  /\ UNCHANGED <<adapter, env, pc, tool, params, now, upstream, requests, result, escaped,
                 caught, formatterRuns>>

\* an invocation issues the request of its stage
issue_request ==
  /\ \E c \in Callers :
       LET call == calls[c] IN
       /\ call.stage \in CallStages
       /\ can_issue(call)
       /\ calls' = Stepped([calls EXCEPT ![c] =
                              [call EXCEPT !.pending = TRUE,
                                           !.sent = Append(@, next_request(call)),
                                           !.log = Append(@, Event("issue", call.stage,
                                                                   next_subject(call)))]], c)
  /\ UNCHANGED <<adapter, env, pc, tool, params, now, upstream, requests, result, escaped,
                 caught, formatterRuns>>

\* _geocode_location gets its answer, and the tool goes on to the searches
places_geocode_answered ==
  /\ \E c \in Callers : \E ans \in StepGeoAnswers :
       LET call == Answered(calls[c])
           coords == geocode_location(call.p.location, ans)
       IN /\ calls[c].stage = "geocode"
          /\ calls[c].tool = "google_places_nearby_search"
          /\ calls[c].pending
          /\ calls' = Stepped(
               IF coords.k = "raise"
               THEN [calls EXCEPT ![c] =
                       Returns(call, places_tool_boundary(
                                       env, Throw(coords.exc, coords.sent, coords.used, <<>>)))]
               ELSE IF coords.data = <<>>
               THEN [calls EXCEPT ![c] =
                       Returns(call, places_tool_boundary(
                                       env,
                                       Ret(Msg("Error: Could not geocode location '{}'. Please provide a valid address or coordinates.",
                                               <<"location">>), coords.sent, coords.used, <<>>)))]
               ELSE begin_search(calls, c, [call EXCEPT !.used = coords.used]), c)
  /\ UNCHANGED <<adapter, env, pc, tool, params, now, upstream, requests, result, escaped,
                 caught, formatterRuns>>

\* the search for one place type gets its answer: its places are added to
\* results_by_type, and the tool goes on to the next type or to its return
places_search_answered ==
  /\ \E c \in Callers : \E ans \in StepSearchAnswers :
       LET call == Answered(calls[c])
           one == nearby_search_each(<<Head(call.todo)>>, <<ans>>,
                                     SubSeq(call.sent, 1, Len(call.sent) - 1), call.used,
                                     get_found(calls, c))
       IN /\ calls[c].stage = "search"
          /\ calls[c].pending
          /\ calls' = Stepped(
               IF one.k = "raise"
               THEN [calls EXCEPT ![c] =
                       Returns(call, places_tool_boundary(
                                       env, Throw(one.exc, one.sent, one.used, <<>>)))]
               ELSE IF Tail(call.todo) = <<>>
               THEN set_found([calls EXCEPT ![c] =
                                 Returns(call, places_tool_boundary(
                                                 env, Ret(nearby_search_text(call.p, one.data),
                                                          one.sent, one.used, <<>>)))],
                              c, one.data)
               ELSE set_found([calls EXCEPT ![c] = [call EXCEPT !.todo = Tail(@),
                                                                !.used = one.used]],
                              c, one.data), c)
  /\ UNCHANGED <<adapter, env, pc, tool, params, now, upstream, requests, result, escaped,
                 caught, formatterRuns>>

\* search_nearby at the head of its loop over the places: it returns the
\* sorted list when no place is left, fails on a place without geometry, and
\* asks for the distance of the next place otherwise
next_place(cs, c, call, places) ==
  set_places(
    IF call.todo = <<>>
    THEN [cs EXCEPT ![c] =
            Returns(call, maps_tool_boundary(
                            Ret(DictResult("success", NoError, sort_by_distance(places),
                                           Len(places)),
                                call.sent, call.used, <<>>)))]
    ELSE IF ~Head(call.todo).geometry
    THEN [cs EXCEPT ![c] =
            Returns(call, maps_tool_boundary(Throw(Exc("KeyError", "'geometry'"),
                                                   call.sent, call.used, <<>>)))]
    ELSE [cs EXCEPT ![c] = [call EXCEPT !.stage = "distance"]],
    c, places)

\* gmaps.geocode(location) returns
maps_geocode_answered ==
  /\ \E c \in Callers : \E ans \in MapsGeoAnswers :
       LET call == Answered(calls[c])
           geocode_result == maps_call(call.sent[1], ans)
       IN /\ calls[c].stage = "geocode"
          /\ calls[c].tool = "search_nearby"
          /\ calls[c].pending
          /\ calls' = Stepped(
               [calls EXCEPT ![c] =
                  IF geocode_result.k = "raise"
                  THEN Returns(call, maps_tool_boundary(
                                       Throw(geocode_result.exc, geocode_result.sent,
                                             geocode_result.used, <<>>)))
                  ELSE IF geocode_result.data = <<>>
                  THEN Returns(call, maps_tool_boundary(
                                       Ret(DictResult("error",
                                                      Msg("Could not geocode location: {}",
                                                          <<"location">>), <<>>, 0),
                                           geocode_result.sent, geocode_result.used, <<>>)))
                  ELSE [call EXCEPT !.stage = "nearby", !.used = geocode_result.used]], c)
  /\ UNCHANGED <<adapter, env, pc, tool, params, now, upstream, requests, result, escaped,
                 caught, formatterRuns>>

\* gmaps.places_nearby(...) returns: places = [] and the loop over the first
\* limit results
maps_nearby_answered ==
  /\ \E c \in Callers : \E ans \in StepNearbyAnswers :
       LET call == Answered(calls[c])
           places_result == maps_call(call.sent[2], ans)
           used == call.used \o places_result.used
           limited == SubSeq(places_result.data, 1,
                             IF call.p.limit < Len(places_result.data) THEN call.p.limit
                             ELSE Len(places_result.data))
       IN /\ calls[c].stage = "nearby"
          /\ calls[c].pending
          /\ calls' = Stepped(
               IF places_result.k = "raise"
               THEN [calls EXCEPT ![c] =
                       Returns(call, maps_tool_boundary(Throw(places_result.exc, call.sent, used,
                                                              <<>>)))]
               ELSE next_place(calls, c, [call EXCEPT !.used = used, !.todo = limited], <<>>),
               c)
  /\ UNCHANGED <<adapter, env, pc, tool, params, now, upstream, requests, result, escaped,
                 caught, formatterRuns>>

\* gmaps.distance_matrix(...) for one place returns: the place is appended
\* to places, with its distance when the element is OK
maps_distance_answered ==
  /\ \E c \in Callers : \E ans \in StepDistanceAnswers :
       LET call == Answered(calls[c])
           one == search_nearby_each(<<Head(call.todo)>>, <<ans>>,
                                     SubSeq(call.sent, 1, Len(call.sent) - 1), call.used,
                                     get_places(calls, c))
       IN /\ calls[c].stage = "distance"
          /\ calls[c].pending
          /\ calls' = Stepped(
               IF one.k = "raise"
               THEN [calls EXCEPT ![c] =
                       Returns(call, maps_tool_boundary(Throw(one.exc, one.sent, one.used, <<>>)))]
               ELSE next_place(calls, c, [call EXCEPT !.todo = Tail(@), !.used = one.used],
                               one.data), c)
  /\ UNCHANGED <<adapter, env, pc, tool, params, now, upstream, requests, result, escaped,
                 caught, formatterRuns>>

StepsNext ==
  \/ invoke_nearby_search
  \/ invoke_search_nearby
  \/ issue_request
  \/ places_geocode_answered
  \/ places_search_answered
  \/ maps_geocode_answered
  \/ maps_nearby_answered
  \/ maps_distance_answered

SpecSteps == Init /\ [][StepsNext]_vars

\* =============================================================== properties
\* The tools that return an item list under the size guard.
ListTools ==
  { "asana_list_tasks", "asana_search_tasks", "asana_get_project_tasks",
    "gcal_list_events", "gcal_search_events" }

\* the item list the upstream returned to the invocation
UpstreamItems == upstream[1].items

\* the first formatting of the full list came out over the limit
OverLimit ==
  /\ pc = "done"
  /\ tool \in ListTools
  /\ formatterRuns # <<>>
  /\ formatterRuns[1] > CHARACTER_LIMIT

\* len() of a returned report
ReportLen(r) == IF r.items_key = "events" THEN EventsReportLen(r) ELSE TasksReportLen(r)

\* C1: in the five list tools, when the full report of N > 1 items is longer
\* than 25,000 characters, the returned report holds exactly the first
\* max(1, N // 2) items in their original order and carries a note with
\* that count and N.
C1_TruncatedReportIsFirstHalfWithNote ==
  (OverLimit /\ Len(UpstreamItems) > 1) =>
     LET N == Len(UpstreamItems)
         K == Max(1, N \div 2)
     IN /\ result.kind = "report"
        /\ result.items = SubSeq(UpstreamItems, 1, K)
        /\ result.count = K
        /\ result.note # NoNote
        /\ result.note.shown = K
        /\ result.note.total = N

\* four events over the limit: the first two are returned, "2 of 4"
C1_Witness ==
  /\ OverLimit
  /\ tool = "gcal_list_events"
  /\ Len(UpstreamItems) = 4
  /\ result.kind = "report"
  /\ Len(result.items) = 2
  /\ result.items[2].gid = 2
  /\ result.note.total = 4

\* C2: the truncation is monotonic: of N >= 1 items over the limit at least
\* one is kept, exactly one when N = 1, and fewer than N when N > 1.
C2_TruncationMonotonic ==
  (OverLimit /\ Len(UpstreamItems) >= 1) =>
     /\ result.kind = "report"
     /\ Len(result.items) >= 1
     /\ (Len(UpstreamItems) = 1 => Len(result.items) = 1)
     /\ (Len(UpstreamItems) > 1 => Len(result.items) < Len(UpstreamItems))

\* one task over the limit: it is still returned
C2_Witness ==
  /\ OverLimit
  /\ tool = "asana_list_tasks"
  /\ Len(UpstreamItems) = 1
  /\ result.kind = "report"
  /\ Len(result.items) = 1
  /\ result.note.shown = 1

\* C3, as the claim states it: the regenerated report uses the first
\* ceil(N / 2) items, for every N >= 1.
C3_AsClaimed_FirstHalfRoundedUp ==
  OverLimit =>
     /\ result.kind = "report"
     /\ result.items = SubSeq(UpstreamItems, 1, (Len(UpstreamItems) + 1) \div 2)

\* C3, amended: the regenerated report uses the first max(1, floor(N / 2))
\* items, for every N >= 1: the half is rounded down, and never to zero.
C3_FirstHalfRoundedDown ==
  OverLimit =>
     /\ result.kind = "report"
     /\ result.items = SubSeq(UpstreamItems, 1, Max(1, Len(UpstreamItems) \div 2))

\* three tasks over the limit: one is returned, not two
C3_Witness ==
  /\ OverLimit
  /\ tool = "asana_search_tasks"
  /\ Len(UpstreamItems) = 3
  /\ result.kind = "report"
  /\ Len(result.items) = 1

C5_ErrorCategoriesInOrder ==
  (pc = "done" /\ adapter \in {"asana", "gcal"} /\ caught # NoExc) =>
     LET e == caught
         isConfig == IsSubclass(e.cls, "ValueError")
         isStatus == ~isConfig /\ IsSubclass(e.cls, "HTTPStatusError")
         isTimeout == ~isConfig /\ ~isStatus /\ IsSubclass(e.cls, "TimeoutException")
     IN /\ result.kind = "msg"
        /\ isConfig => result = Msg("Configuration Error: {}", <<e.text>>)
        /\ (isStatus /\ e.status = 400) => result = Msg("Error: Bad request. {}", <<e.body>>)
        /\ (isStatus /\ e.status = 401) =>
             result = Msg("Error: Authentication failed. Please check your access token.", <<>>)
        /\ (isStatus /\ e.status = 403) =>
             result = Msg(IF adapter = "asana"
                          THEN "Error: Permission denied. You don't have access to this resource."
                          ELSE "Error: Permission denied. You don't have access to this calendar.",
                          <<>>)
        /\ (isStatus /\ e.status = 404) =>
             result = Msg(IF adapter = "asana"
                          THEN "Error: Resource not found. Please check the ID."
                          ELSE "Error: Event or calendar not found. Please check the ID.", <<>>)
        /\ (isStatus /\ e.status = 429) =>
             result = Msg("Error: Rate limit exceeded. Please wait before making more requests.", <<>>)
        /\ (isStatus /\ e.status \notin {400, 401, 403, 404, 429}) =>
             result = Msg("Error: API request failed with status {}: {}",
                          <<ToString(e.status), e.body>>)
        /\ isTimeout => result = Msg("Error: Request timed out. Please try again.", <<>>)
        /\ (~isConfig /\ ~isStatus /\ ~isTimeout) =>
             result = Msg("Error: Unexpected error occurred: {}: {}", <<e.cls, e.text>>)

\* a JSON decoding error is a ValueError: the first test takes it
C5_Witness ==
  /\ pc = "done"
  /\ adapter = "gcal"
  /\ tool = "_handle_api_error"
  /\ caught.cls = "JSONDecodeError"
  /\ result = Msg("Configuration Error: {}", <<caught.text>>)

\* C6: the error translation is total at the tool boundary: in the four
\* adapters an invocation in which an Exception was raised ends with a string
\* returned; nothing that is an Exception leaves the tool.
C6_ExceptionsEndAsStrings ==
  (pc = "done" /\ adapter \in Adapters) =>
     /\ escaped # NoExc => ~IsSubclass(escaped.cls, "Exception")
     /\ escaped = NoExc => result.kind \in {"msg", "report", "text"}
     /\ caught # NoExc => (escaped = NoExc /\ result.kind = "msg")

\* a Places response that is no JSON: the decoding error comes back as text
C6_Witness ==
  /\ pc = "done"
  /\ adapter = "places"
  /\ caught.cls = "JSONDecodeError"
  /\ escaped = NoExc
  /\ result.kind = "msg"

\* the credential variable of the adapter is not set
CredentialMissing ==
  pc = "done" /\ adapter \in Adapters /\ CredentialOf(adapter) \notin env

\* the tool returns an input error before it builds any request
InputRejected ==
  \/ /\ tool = "asana_update_task"
     /\ \A f \in {"name", "notes", "assignee", "due_on", "completed"} : params[f] = None
  \/ /\ tool = "gcal_update_event"
     /\ \A f \in {"summary", "description", "location", "status"} : params[f] = None
     /\ \A f \in {"start_datetime", "end_datetime", "timezone"} : params[f] \in {None, ""}
  \/ /\ tool \in {"asana_search_tasks", "asana_list_projects", "asana_list_tags"}
     /\ params.workspace_gid \in {None, ""}

\* C7, as the claim states it: with the credential variable missing, every
\* invocation returns a message beginning 'Configuration Error:' and issues
\* no request.
C7_AsClaimed_ConfigurationErrorEverywhere ==
  CredentialMissing =>
     /\ requests = <<>>
     /\ result.kind = "msg"
     /\ result.tmpl = "Configuration Error: {}"

\* C7, amended: with the credential variable missing no invocation issues a
\* request; Places returns its fixed 'Error: Google Maps API key not
\* configured...' message; Asana, Calendar and Perplexity return a message
\* beginning 'Configuration Error:', unless the tool rejects its input before
\* it builds a request and returns that 'Error: ...' message.
C7_MissingCredentialNoRequest ==
  CredentialMissing =>
     /\ requests = <<>>
     /\ upstream = <<>>
     /\ result.kind = "msg"
     /\ adapter = "places" =>
          result = Msg("Error: Google Maps API key not configured. Please set the GOOGLE_MAPS_API_KEY environment variable.", <<>>)
     /\ (adapter # "places" /\ ~InputRejected) => result.tmpl = "Configuration Error: {}"
     /\ (adapter # "places" /\ InputRejected) =>
          result.tmpl \in
            { "Error: No fields to update. Specify at least one field.",
              "Error: No fields to update. Please specify at least one field to change.",
              "Error: workspace_gid is required. Please set ASANA_DEFAULT_WORKSPACE_GID in .env or provide it explicitly." }

\* a Places tool without the key: the fixed message, nothing sent
C7_Witness ==
  /\ CredentialMissing
  /\ tool = "google_places_text_search"
  /\ requests = <<>>
  /\ result.kind = "msg"
  /\ result.tmpl = "Error: Google Maps API key not configured. Please set the GOOGLE_MAPS_API_KEY environment variable."

\* ------------------------------------------------------- calendar arithmetic
\* The day number of a date in the proleptic Gregorian calendar, counted
\* from the lengths of the years and months before it.
MonthLengths(y) ==
  << 31, IF y % 4 = 0 /\ (y % 100 # 0 \/ y % 400 = 0) THEN 29 ELSE 28, 31, 30, 31, 30,
     31, 31, 30, 31, 30, 31 >>

RECURSIVE SumFirst(_, _)
SumFirst(seq, k) == IF k = 0 THEN 0 ELSE seq[k] + SumFirst(seq, k - 1)

DayNumber(date) ==
  LET y == date[1] - 1 IN
  365 * y + (y \div 4) - (y \div 100) + (y \div 400)
    + SumFirst(MonthLengths(date[1]), date[2] - 1) + date[3]

IsDate(date) ==
  /\ date[2] \in 1..12
  /\ date[3] \in 1..MonthLengths(date[1])[date[2]]

\* an ISO string of a midnight in UTC
IsUtcMidnight(iso) ==
  /\ iso.s = "iso"
  /\ IsDate(iso.date)
  /\ iso.time = <<0, 0, 0>>
  /\ iso.frac = <<>>
  /\ iso.suffix = "+00:00"

BoundsReturned == pc = "done" /\ tool = "_get_time_range_bounds"

\* C8: with now the current UTC time, today is [midnight of now, +1 day),
\* tomorrow [midnight of now + 1 day, +1 day), this_week [midnight of now,
\* +7 days) whatever the weekday, next_week [midnight of now + 7 days,
\* +7 days).
C8_PresetBounds ==
  (BoundsReturned /\ params.time_range \in {"today", "tomorrow", "this_week", "next_week"}) =>
     LET today == DayNumber(<<now.year, now.month, now.day>>)
         shift == CASE params.time_range = "today" -> 0
                    [] params.time_range = "tomorrow" -> 1
                    [] params.time_range = "this_week" -> 0
                    [] params.time_range = "next_week" -> 7
         span == IF params.time_range \in {"today", "tomorrow"} THEN 1 ELSE 7
     IN /\ escaped = NoExc
        /\ result.kind = "bounds"
        /\ IsUtcMidnight(result.start)
        /\ IsUtcMidnight(result.end)
        /\ DayNumber(result.start.date) = today + shift
        /\ DayNumber(result.end.date) = today + shift + span

\* Wednesday 28 February 2024, late in the evening: this_week runs from
\* that day to 6 March
C8_Witness ==
  /\ BoundsReturned
  /\ params.time_range = "this_week"
  /\ now.year = 2024 /\ now.month = 2 /\ now.day = 28 /\ now.hour = 23
  /\ result.start.date = <<2024, 2, 28>>
  /\ result.end.date = <<2024, 3, 6>>

\* C9: this_month is [first day of the current month 00:00 UTC, first day
\* of the following month 00:00 UTC); in December the end is 1 January of
\* the following year.
C9_ThisMonthBounds ==
  (BoundsReturned /\ params.time_range = "this_month") =>
     /\ escaped = NoExc
     /\ result.kind = "bounds"
     /\ IsUtcMidnight(result.start)
     /\ IsUtcMidnight(result.end)
     /\ result.start.date = <<now.year, now.month, 1>>
     /\ result.end.date = IF now.month = 12 THEN <<now.year + 1, 1, 1>>
                          ELSE <<now.year, now.month + 1, 1>>

\* 31 December 2023: the month ends on 1 January 2024
C9_Witness ==
  /\ BoundsReturned
  /\ params.time_range = "this_month"
  /\ now.year = 2023 /\ now.month = 12 /\ now.day = 31
  /\ result.start.date = <<2023, 12, 1>>
  /\ result.end.date = <<2024, 1, 1>>

\* C10: gcal_list_events with time_range custom and start_date or end_date
\* missing returns the configuration error that names start_date and
\* end_date, and issues no request.
C10_CustomRangeNeedsBothDates ==
  ( /\ pc = "done"
    /\ tool = "gcal_list_events"
    /\ params.time_range = "custom"
    /\ (params.start_date.s \in {"none", "empty"} \/ params.end_date.s \in {"none", "empty"}) ) =>
     /\ requests = <<>>
     /\ upstream = <<>>
     /\ result = Msg("Configuration Error: {}",
                     <<"For CUSTOM time range, both start_date and end_date must be provided">>)

\* the token is set and start_date is given, end_date is not
C10_Witness ==
  /\ pc = "done"
  /\ tool = "gcal_list_events"
  /\ "GOOGLE_CALENDAR_ACCESS_TOKEN" \in env
  /\ params.time_range = "custom"
  /\ params.start_date.s = "iso"
  /\ params.end_date.s = "none"
  /\ requests = <<>>
  /\ result.kind = "msg"
  /\ result.tmpl = "Configuration Error: {}"

\* the instant an ISO string with a UTC offset names, in seconds since
\* 1 January 2020 00:00 UTC
UtcSeconds(iso) ==
  LET t == IF iso.time = <<>> THEN <<0, 0, 0>> ELSE iso.time IN
  (DayNumber(iso.date) - DayNumber(<<2020, 1, 1>>)) * 86400 + t[1] * 3600 + t[2] * 60 + t[3]
    - SuffixOffset(iso.suffix)[1] * 60

\* C11, as the claim states it: for every selector, custom with both bounds
\* given included, the returned pair is a half-open UTC interval: both
\* bounds are expressed in UTC and start is strictly before end.
C11_AsClaimed_HalfOpenUtcInterval ==
  (BoundsReturned /\ escaped = NoExc) =>
     /\ result.kind = "bounds"
     /\ result.start.suffix = "+00:00"
     /\ result.end.suffix = "+00:00"
     /\ UtcSeconds(result.start) < UtcSeconds(result.end)

\* the preset selectors do return a UTC interval with start before end
C11_PresetsHalfOpenUtcInterval ==
  (BoundsReturned /\ escaped = NoExc /\ params.time_range # "custom") =>
     /\ result.kind = "bounds"
     /\ result.start.suffix = "+00:00"
     /\ result.end.suffix = "+00:00"
     /\ UtcSeconds(result.start) < UtcSeconds(result.end)

C13_LiteralCoordinatesSkipGeocoding ==
  ( /\ pc = "done"
    /\ tool \in {"google_places_nearby_search", "google_places_text_search"}
    /\ CredentialOf(adapter) \in env ) =>
     LET loc == IF tool = "google_places_nearby_search" THEN params.location
                ELSE params.location_bias
         inRange(part, bound) == part.num /\ ~part.nan /\ part.val \in (0 - bound)..bound
         asCoordinates == Len(loc) = 2 /\ inRange(loc[1], 90) /\ inRange(loc[2], 180)
         geocodes == {i \in 1..Len(requests) : requests[i].endpoint = "geocode/json"}
     IN loc # <<>> =>
          /\ asCoordinates => geocodes = {}
          /\ ~asCoordinates => geocodes = {1}

\* '32,-81' given to the nearby search: the first request is the search
C13_Witness ==
  /\ pc = "done"
  /\ tool = "google_places_nearby_search"
  /\ params.location = <<Number(32), Number(-81)>>
  /\ requests # <<>>
  /\ requests[1].endpoint = "places:searchNearby"
  /\ \A i \in 1..Len(requests) : requests[i].endpoint # "geocode/json"

\* The place lists of a nearby search that succeeded: the one list of
\* search_nearby, the list of every place type of google_places_nearby_search.
\* Each place is given by its distance, <<>> when it has none.
ReturnedPlaceLists ==
  IF tool = "search_nearby" /\ result.kind = "dict" /\ result.status = "success"
  THEN { [i \in 1..Len(result.items) |-> result.items[i].distance_miles] }
  ELSE IF tool = "google_places_nearby_search" /\ result.kind = "text"
  THEN { [i \in 1..Len(result.results_by_type[t].places) |->
            <<result.results_by_type[t].places[i].dist>>] :
         t \in 1..Len(result.results_by_type) }
  ELSE {}

AscendingMissingLast(distances) ==
  \A i, j \in 1..Len(distances) :
     i < j => \/ distances[j] = <<>>
              \/ distances[i] # <<>> /\ distances[i][1] <= distances[j][1]

\* C14: in search_nearby and in google_places_nearby_search every returned
\* list of places is in ascending order of distance from the search centre,
\* and every place without a distance comes after all places that have one.
C14_AsClaimed_PlaceListsAscendingByDistance ==
  pc = "done" => \A distances \in ReturnedPlaceLists : AscendingMissingLast(distances)

\* C14, for search_nearby alone: its list is ascending by distance with the
\* places without a distance last.
C14_MapsListAscendingByDistance ==
  (pc = "done" /\ tool = "search_nearby") =>
     \A distances \in ReturnedPlaceLists : AscendingMissingLast(distances)

\* search_nearby found a place without a distance and then one at 2 miles,
\* and returned the one at 2 miles first
C14_MapsWitness ==
  /\ pc = "done"
  /\ tool = "search_nearby"
  /\ result.kind = "dict"
  /\ result.status = "success"
  /\ Len(result.items) = 2
  /\ result.items[1].gid = 2
  /\ result.items[1].distance_miles = <<2>>
  /\ result.items[2].distance_miles = <<>>

\* google_places_nearby_search returned a place at 5 miles before one at 2
C14_PlacesOutOfOrder ==
  /\ pc = "done"
  /\ tool = "google_places_nearby_search"
  /\ result.kind = "text"
  /\ \E t \in 1..Len(result.results_by_type) :
        LET places == result.results_by_type[t].places IN
        Len(places) = 2 /\ places[1].dist = 5 /\ places[2].dist = 2

\* the tools that issue several upstream sub-calls in one invocation
FanOutTools ==
  {"google_places_nearby_search", "search_nearby", "gcal_update_event", "compare_hospitals"}

\* a sub-call of the invocation timed out, could not connect or was answered
\* with an error status
SubCallFailed == \E i \in 1..Len(upstream) : upstream[i].k \in {"exc", "status"}

\* the invocation returned an error: the text of the error handler for the
\* exception caught, or a dict with status "error"
ErrorReturned ==
  /\ escaped = NoExc
  /\ caught # NoExc
  /\ \/ result.kind = "msg"
     \/ result.kind = "dict" /\ result.status = "error"

\* C15: in google_places_nearby_search, search_nearby, gcal_update_event and
\* compare_hospitals, when a sub-call times out or fails the invocation
\* returns an error result and never a success result built from the
\* sub-calls that succeeded.
C15_AsClaimed_NoPartialResultOnFailure ==
  (pc = "done" /\ tool \in FanOutTools /\ SubCallFailed) => ErrorReturned

\* C15, without compare_hospitals: the other three tools return the error
\* of the sub-call that failed.
C15_OtherToolsFailWhole ==
  (pc = "done" /\ tool \in FanOutTools \ {"compare_hospitals"} /\ SubCallFailed) =>
     ErrorReturned

\* search_nearby: the second distance call timed out after the first had
\* succeeded, and the result is the error
C15_OtherToolsWitness ==
  /\ pc = "done"
  /\ tool = "search_nearby"
  /\ Len(upstream) = 4
  /\ upstream[3].k = "ok"
  /\ upstream[4].k = "exc"
  /\ result.kind = "dict"
  /\ result.status = "error"

\* compare_hospitals: the second sub-call timed out and the result is a
\* success with two entries, the second one "Not Found"
C15_PartialComparison ==
  /\ pc = "done"
  /\ tool = "compare_hospitals"
  /\ Len(upstream) = 2
  /\ upstream[1].k = "ok"
  /\ upstream[2].k = "exc"
  /\ result.kind = "dict"
  /\ result.status = "success"
  /\ result.total = 2
  /\ result.items[1].hospital_name = "facility_name"
  /\ result.items[2].hospital_name = "Not Found"

\* a time_of_day that is given and is neither 'now' nor a date and a time of
\* the calendar written as 'YYYY-MM-DD HH:MM'
BadTimeOfDay(t) ==
  /\ t.s = "text"
  /\ t.lower \notin {"", "now"}
  /\ \/ t.date = <<>> \/ t.clock = <<>> \/ t.sep # " "
     \/ t.date[2] \notin 1..12
     \/ t.date[3] \notin 1..DaysInMonth(t.date[1], t.date[2])
     \/ t.clock[1] \notin 0..23
     \/ t.clock[2] \notin 0..59

\* the input of the invocation fails the check its tool makes on it
ToolLevelCheckFails ==
  \/ tool = "google_routes_compute_distance_matrix" /\ params.origins * params.destinations > 100
  \/ /\ tool = "search_hospitals"
     /\ params.zip_code \in {None, ""}
     /\ params.city \in {None, ""} \/ params.state \in {None, ""}
  \/ tool = "compare_hospitals" /\ Len(params.hospital_ids) > 5
  \/ tool = "get_drive_time" /\ BadTimeOfDay(params.time_of_day)
  \/ /\ tool \in {"asana_search_tasks", "asana_list_projects", "asana_list_tags"}
     /\ params.workspace_gid \in {None, ""}

C17_AsClaimed_PerplexityWithinLimit ==
  (pc = "done" /\ adapter = "perplexity" /\ result.kind = "text") =>
     /\ result.original <= CHARACTER_LIMIT =>
          (result.shown = result.original /\ result.notice = 0)
     /\ TextLen(result) <= CHARACTER_LIMIT

\* C17, the part that holds: a content within the limit is returned
\* unchanged, and a longer one is cut to its first CHARACTER_LIMIT characters
\* with the notice appended after them.
C17_PerplexityCutsContentAtLimit ==
  (pc = "done" /\ adapter = "perplexity" /\ result.kind = "text") =>
     /\ result.original <= CHARACTER_LIMIT =>
          (result.shown = result.original /\ result.notice = 0)
     /\ result.original > CHARACTER_LIMIT =>
          (result.shown = CHARACTER_LIMIT /\ result.notice > 0)

\* a Perplexity answer longer than the limit came back as CHARACTER_LIMIT
\* characters followed by the notice
C17_OverLimit ==
  /\ pc = "done"
  /\ adapter = "perplexity"
  /\ result.kind = "text"
  /\ result.original > CHARACTER_LIMIT
  /\ TextLen(result) > CHARACTER_LIMIT

\* the nearby search or the distance matrix of the Places adapter returned
\* its formatted text
PlacesGuardedText ==
  /\ pc = "done"
  /\ tool \in {"google_places_nearby_search", "google_routes_compute_distance_matrix"}
  /\ result.kind = "text"

\* the items the returned text was formatted from
PlacesGuardedItems ==
  IF tool = "google_places_nearby_search" THEN dict_values(result.results_by_type)
  ELSE upstream[1].items

\* C18, as the claim states it: an over-limit response of the nearby search
\* and of the distance matrix is the text of the first max(1, N // 2) of its
\* N items, which can still be longer than CHARACTER_LIMIT.
C18_AsClaimed_PlacesHalveItems ==
  (PlacesGuardedText /\ result.original > CHARACTER_LIMIT) =>
     LET N == Len(PlacesGuardedItems)
         K == IF N \div 2 > 1 THEN N \div 2 ELSE 1
     IN result.shown = PlacesTextLen(result.title, SubSeq(PlacesGuardedItems, 1, K),
                                     params.response_format)

\* C18, amended: an over-limit response of the nearby search and of the
\* distance matrix is cut by characters, whatever the number of items: the
\* text is shortened so that it and the truncation note together are exactly
\* CHARACTER_LIMIT characters long, and the response never exceeds the
\* limit; a response within the limit is returned unchanged.
C18_PlacesCutTextToLimit ==
  PlacesGuardedText =>
     /\ TextLen(result) <= CHARACTER_LIMIT
     /\ result.original <= CHARACTER_LIMIT =>
          (result.shown = result.original /\ result.notice = 0)
     /\ result.original > CHARACTER_LIMIT =>
          (result.notice > 0 /\ TextLen(result) = CHARACTER_LIMIT)

\* a distance matrix of one entry of 26,000 characters came back as exactly
\* CHARACTER_LIMIT characters, note included
C18_Witness ==
  /\ PlacesGuardedText
  /\ tool = "google_routes_compute_distance_matrix"
  /\ Len(PlacesGuardedItems) = 1
  /\ result.original > CHARACTER_LIMIT
  /\ result.notice > 0
  /\ TextLen(result) = CHARACTER_LIMIT

\* a formatter was called on its own and returned its string
FormatterReturned ==
  pc = "done" /\ tool \in {"_format_tasks_response", "_format_events_response"}

\* the value of a key of a decoded JSON object, <<>> when the key is absent
\* or the text was no object
JsonGet(decoded, key) ==
  IF decoded.t # "dict" THEN <<>>
  ELSE LET at == {i \in 1..Len(decoded.v) : decoded.v[i].key = key} IN
       IF at = {} THEN <<>> ELSE <<decoded.v[CHOOSE i \in at : TRUE].value>>

\* C19: decoding the JSON output of _format_tasks_response and of
\* _format_events_response for a list of N >= 0 items gives an object whose
\* count is N and whose tasks / events array holds the N items in the order
\* of the input.
C19_JsonOutputRoundTrips ==
  (FormatterReturned /\ params.response_format = "json") =>
     LET decoded == json_loads(result.tokens)
         items_key == IF tool = "_format_tasks_response" THEN "tasks" ELSE "events"
     IN /\ decoded.t = "dict"
        /\ JsonGet(decoded, "count") = <<JNum(Len(params.items))>>
        /\ JsonGet(decoded, items_key) = <<JList(params.items)>>

\* three events, the first and the last the same, with a total and has_more:
\* the JSON text decodes to count 3 and the three events in order
C19_Witness ==
  /\ FormatterReturned
  /\ tool = "_format_events_response"
  /\ params.response_format = "json"
  /\ params.items = <<JsonItem(2), JsonItem(1), JsonItem(2)>>
  /\ params.total_count = <<MaxItems>>
  /\ params.has_more
  /\ JsonGet(json_loads(result.tokens), "count") = <<JNum(3)>>
  /\ JsonGet(json_loads(result.tokens), "events") = <<JList(params.items)>>

\* C20: the Markdown output of _format_tasks_response and of
\* _format_events_response for an empty list is not empty: it has the title
\* line, a count line that gives 0 as the number of items of the list, and the
\* line 'No tasks found.' / 'No events found.'.
C20_EmptyListMarkdownStatesZero ==
  (FormatterReturned /\ params.response_format = "markdown" /\ params.items = <<>>) =>
     LET lines == {result.lines[i] : i \in 1..Len(result.lines)}
         isTasks == tool = "_format_tasks_response"
     IN /\ result.lines # <<>>
        /\ ("# " \o params.title) \in lines
        /\ (IF isTasks THEN "Found 0 task(s)"
            ELSE IF params.total_count = <<>> THEN "Found 0 events"
            ELSE "Found " \o ToString(params.total_count[1]) \o " events (showing 0)") \in lines
        /\ (IF isTasks THEN "No tasks found." ELSE "No events found.") \in lines

\* _format_tasks_response([], markdown, 'My Tasks'): the five lines of the
\* empty report
C20_Witness ==
  /\ FormatterReturned
  /\ tool = "_format_tasks_response"
  /\ params.response_format = "markdown"
  /\ params.items = <<>>
  /\ result.lines = <<"# My Tasks", "", "Found 0 task(s)", "", "No tasks found.">>

\* the event to create starts after it ends
StartAfterEnd ==
  /\ pc = "done"
  /\ tool = "gcal_create_event"
  /\ LET instant(iso) == UtcSeconds([iso EXCEPT !.suffix = IF @ = "Z" THEN "+00:00" ELSE @])
     IN instant(params.start_datetime) > instant(params.end_datetime)

\* C21: gcal_create_event with a start_datetime after its end_datetime
\* returns a validation error and sends no event to the upstream API.
C21_AsClaimed_StartAfterEndRejected ==
  StartAfterEnd =>
     /\ requests = <<>>
     /\ result.kind = "msg"
     /\ result.tmpl # "# Event Created Successfully"

\* an event from 11:00 to 10:00 was posted and reported as created
C21_PostedAnyway ==
  /\ StartAfterEnd
  /\ CredentialOf(adapter) \in env
  /\ Len(requests) = 1
  /\ requests[1].method = "POST"
  /\ result = Msg("# Event Created Successfully", <<>>)

\* C22: compare_hospitals with more than 5 provider ids returns an error and
\* issues no request; with 5 or fewer it returns one comparison entry per
\* id, in the order of the ids, and total_compared is the number of ids.
C22_OneEntryPerIdUpToFive ==
  (pc = "done" /\ tool = "compare_hospitals") =>
     LET ids == params.hospital_ids IN
     /\ Len(ids) > 5 =>
          /\ requests = <<>>
          /\ result = DictResult("error", Msg("Maximum 5 hospitals can be compared at once", <<>>),
                                 <<>>, 0)
     /\ Len(ids) <= 5 =>
          /\ result.status = "success"
          /\ result.total = Len(ids)
          /\ Len(result.items) = Len(ids)
          /\ \A i \in 1..Len(ids) : result.items[i].medicare_provider_id = ids[i]
          /\ Len(requests) = Len(ids)

\* five ids, the third of them unknown to the upstream: five entries
C22_Witness ==
  /\ pc = "done"
  /\ tool = "compare_hospitals"
  /\ Len(params.hospital_ids) = 5
  /\ result.status = "success"
  /\ result.total = 5
  /\ result.items[3] = Comparison("110003", FALSE)
  /\ \A i \in {1, 2, 4, 5} : result.items[i] = Comparison(params.hospital_ids[i], TRUE)

\* the entries of a log that are requests issued at a stage
IssuedAt(log, stage) ==
  LET isIt(e) == e.ev = "issue" /\ e.call = stage IN SelectSeq(log, isIt)

\* the position of the first entry of a stage in a log, 0 when it has none
FirstAt(log, stage) ==
  LET at == {i \in 1..Len(log) : log[i].call = stage} IN
  IF at = {} THEN 0 ELSE CHOOSE i \in at : \A j \in at : i <= j

\* C23: within one invocation of a fan-out tool the sub-calls are strictly
\* sequential and ordered: at most one request of the invocation is
\* outstanding at any time (every request is answered before the next is
\* issued); the geocode call completes before the first search call; in
\* google_places_nearby_search the searches are issued one per requested
\* place type in the order of place_types; in search_nearby the distance
\* calls are issued after the search returned, one place at a time in result
\* order.
C23_SubCallsSequentialInOrder ==
  \A c \in Callers :
     LET call == calls[c]
         log == call.log
         searches == IssuedAt(log, "search")
         distances == IssuedAt(log, "distance")
     IN /\ Cardinality({i \in 1..Len(log) : log[i].ev = "issue"})
             - Cardinality({i \in 1..Len(log) : log[i].ev = "complete"})
             = (IF call.pending THEN 1 ELSE 0)
        /\ \A i \in 1..Len(log) :
              /\ log[i].ev = (IF i % 2 = 1 THEN "issue" ELSE "complete")
              /\ i % 2 = 0 => (log[i].call = log[i - 1].call /\ log[i].subject = log[i - 1].subject)
              /\ log[i].call = "geocode" => i <= 2
        /\ \A stage \in {"search", "nearby"} :
              (FirstAt(log, stage) # 0 /\ FirstAt(log, "geocode") # 0) =>
                 (FirstAt(log, stage) = 3 /\ log[2] = Event("complete", "geocode", "location"))
        /\ call.tool = "google_places_nearby_search" =>
              /\ Len(searches) <= Len(call.p.place_types)
              /\ \A k \in 1..Len(searches) : searches[k].subject = call.p.place_types[k]
              /\ call.stage = "done" /\ call.out.result.kind = "text" =>
                   Len(searches) = Len(call.p.place_types)
        /\ (call.tool = "search_nearby" /\ distances # <<>>) =>
              /\ log[3] = Event("issue", "nearby", "location")
              /\ log[4] = Event("complete", "nearby", "location")
              /\ FirstAt(log, "distance") = 5
              /\ Len(distances) <= call.p.limit
              /\ Len(distances) <= Len(call.used[2].items)
              /\ \A k \in 1..Len(distances) :
                    distances[k].subject = ToString(call.used[2].items[k].gid)

\* a nearby search of two place types at an address has returned its text:
\* geocode, then the search for hospital, then the search for pharmacy, each
\* answered before the next was issued
C23_Witness ==
  \E c \in Callers :
     /\ calls[c].stage = "done"
     /\ calls[c].tool = "google_places_nearby_search"
     /\ calls[c].out.result.kind = "text"
     /\ calls[c].log = << Event("issue", "geocode", "location"),
                          Event("complete", "geocode", "location"),
                          Event("issue", "search", "hospital"),
                          Event("complete", "search", "hospital"),
                          Event("issue", "search", "pharmacy"),
                          Event("complete", "search", "pharmacy") >>

\* the i-th answer an invocation got, or a stand-in when it got fewer
AnswerAt(used, i) == IF i <= Len(used) THEN used[i] ELSE Failed(Exc("Timeout", ""))

\* what the invocation returns when it runs alone, from its first statement
\* to its return, with the same parameters, environment and answers
RunAlone(call) ==
  IF call.tool = "google_places_nearby_search"
  THEN LET geocoded == ~literal_coordinates(call.p.location)
           searches == IF geocoded THEN Tail(call.used) ELSE call.used
       IN places_tool_boundary(
            env,
            google_places_nearby_search_try(
              call.p, AnswerAt(call.used, 1),
              [k \in 1..Len(call.p.place_types) |-> AnswerAt(searches, k)]))
  ELSE maps_tool_boundary(
         search_nearby_try(call.p, AnswerAt(call.used, 1), AnswerAt(call.used, 2),
                           [k \in 1..(MaxPlaces + 1) |-> AnswerAt(call.used, k + 2)]))

\* C24: concurrent invocations are independent: however the steps of the
\* invocations of one adapter interleave, each invocation returns what it
\* would return if it ran alone with the same parameters, credentials and
\* upstream answers.
C24_InterleavedInvocationsIndependent ==
  \A c \in Callers : calls[c].stage = "done" => calls[c].out = RunAlone(calls[c])

\* both invocations of the nearby search have returned, each after steps
\* taken while the other was under way, and with different results
C24_Witness ==
  /\ \A c \in Callers :
        /\ calls[c].stage = "done"
        /\ calls[c].overlapped
        /\ calls[c].tool = "google_places_nearby_search"
        /\ calls[c].out.result.kind = "text"
        /\ Len(calls[c].used) >= 2
  /\ calls[1].out.result.total_count = 3
  /\ calls[2].out.result.total_count = 1

\* ------------------------------------------------- the two-step event update
\* the update was asked to change the start, the end or the time zone
DatetimeUpdate ==
  /\ pc = "done"
  /\ tool = "gcal_update_event"
  /\ CredentialOf(adapter) \in env
  /\ ~Falsy(params.start_datetime) \/ ~Falsy(params.end_datetime) \/ ~Falsy(params.timezone)

\* the positions of the requests of one method in the order they were issued
RequestsOf(method) == {i \in 1..Len(requests) : requests[i].method = method}

\* the answer to the first request was no event: a transport failure, an
\* error status or a body that is no JSON
FirstRequestFailed ==
  /\ Len(upstream) >= 1
  /\ \/ upstream[1].k \in {"exc", "status"}
     \/ upstream[1].k = "ok" /\ upstream[1].shape = "not_json"

\* C25: in gcal_update_event with credentials, whenever start_datetime,
\* end_datetime or timezone is given, exactly one GET of the existing event is
\* issued, it is the first request and has been answered before a PATCH is
\* issued; if the GET fails, no PATCH is issued and the text of the error
\* handler for that failure is returned.
C25_ExistingEventReadBeforePatch ==
  DatetimeUpdate =>
     /\ RequestsOf("GET") = {1}
     /\ requests[1].endpoint = "calendars/{calendar_id}/events/{event_id}"
     /\ RequestsOf("PATCH") \subseteq {2}
     /\ Len(requests) = Len(upstream)
     /\ RequestsOf("PATCH") # {} => ~FirstRequestFailed
     /\ FirstRequestFailed =>
          /\ RequestsOf("PATCH") = {}
          /\ ErrorReturned
          /\ result = gcal_handle_api_error(caught)

\* both cases happen: a GET answered with an event and followed by the PATCH,
\* and (the state below) a GET answered 404 after which nothing is patched
C25_Witness ==
  /\ DatetimeUpdate
  /\ params.summary = "x"
  /\ params.start_datetime = "x"
  /\ Len(requests) = 1
  /\ requests[1].method = "GET"
  /\ upstream[1].k = "status"
  /\ upstream[1].status = 404
  /\ result = Msg("Error: Event or calendar not found. Please check the ID.", <<>>)

\* the GET answered with the event, then the PATCH
C25_ReadThenPatched ==
  /\ DatetimeUpdate
  /\ Len(requests) = 2
  /\ requests[1].method = "GET"
  /\ requests[2].method = "PATCH"
  /\ upstream[1].k = "ok"

\* --------------------------------------------------- the empty update error
\* the update tool returned its 'No fields to update' text
NoFieldsToUpdate ==
  /\ pc = "done"
  /\ \/ /\ tool = "asana_update_task"
        /\ result = Msg("Error: No fields to update. Specify at least one field.", <<>>)
     \/ /\ tool = "gcal_update_event"
        /\ result = Msg("Error: No fields to update. Please specify at least one field to change.", <<>>)

\* C26: whenever asana_update_task or gcal_update_event returns the
\* 'No fields to update' error, the invocation has issued no upstream request.
C26_AsClaimed_NoFieldsMeansNoRequest ==
  NoFieldsToUpdate => requests = <<>>

\* asana_update_task does keep to it: it tests update_data before any request
C26_AsanaNoFieldsMeansNoRequest ==
  (NoFieldsToUpdate /\ tool = "asana_update_task") => requests = <<>>

\* gcal_update_event with only timezone given: the existing event is read,
\* nothing of it is used, and the tool says there is nothing to update
C26_ReadThenNoFields ==
  /\ NoFieldsToUpdate
  /\ tool = "gcal_update_event"
  /\ params.timezone = "x"
  /\ Falsy(params.start_datetime) /\ Falsy(params.end_datetime)
  /\ Len(requests) = 1
  /\ requests[1].method = "GET"

\* ------------------------------------------------- configuration errors
\* a tool of the Asana or the Calendar adapter returned 'Configuration Error: ...'
ConfigurationErrorReturned ==
  /\ pc = "done"
  /\ adapter \in {"asana", "gcal"}
  /\ tool \notin {"_handle_api_error", "_get_time_range_bounds"}
  /\ result.kind = "msg"
  /\ result.tmpl = "Configuration Error: {}"

\* gcal_list_events was asked for a custom time range without one of its bounds
CustomRangeLacksBound ==
  /\ tool = "gcal_list_events"
  /\ params.time_range = "custom"
  /\ DateFalsy(params.start_date) \/ DateFalsy(params.end_date)

\* C27: in the Asana and Calendar adapters a tool returns a message beginning
\* with 'Configuration Error:' only when the credential environment variable
\* is missing or a custom time range lacks a bound; a response body that is
\* no JSON and a timestamp that cannot be parsed are never reported so.
C27_AsClaimed_ConfigurationErrorOnlyForConfiguration ==
  ConfigurationErrorReturned =>
     \/ CredentialOf(adapter) \notin env
     \/ CustomRangeLacksBound

\* a 200 answer whose body is no JSON, with the access token set, is reported
\* as a configuration error
C27_UndecodableBodyAsConfiguration ==
  /\ ConfigurationErrorReturned
  /\ CredentialOf(adapter) \in env
  /\ caught.cls = "JSONDecodeError"
  /\ Len(upstream) = 1
  /\ upstream[1].k = "ok"
  /\ upstream[1].shape = "not_json"

\* an event whose start time is no ISO timestamp is reported as a
\* configuration error
C27_BadTimestampAsConfiguration ==
  /\ ConfigurationErrorReturned
  /\ CredentialOf(adapter) \in env
  /\ ~CustomRangeLacksBound
  /\ caught = Exc("ValueError", "Invalid isoformat string")

\* --------------------------------------------- the JSON text of the list tools
\* the texts the list tools return for an upstream list without items
NoItemsTexts ==
  {"No tasks found.", "No tasks found matching search criteria.",
   "No tasks found in this project.",
   "No events found in the specified time range ({}).", "No events found matching '{}'"}

\* a list tool asked for JSON returned something that is no error
JsonListResult ==
  /\ pc = "done"
  /\ tool \in ListTools
  /\ params.response_format = "json"
  /\ escaped = NoExc
  /\ caught = NoExc
  /\ \/ result.kind = "report"
     \/ result.kind = "msg" /\ result.tmpl \in NoItemsTexts

\* the string a list tool returned, as the tokens of a JSON text: what the
\* formatter wrote, followed by the note the tool appended; any other text
\* is one token that is no JSON
ReturnedTokens(r) ==
  IF r.kind = "report" /\ r.fmt = "json"
  THEN LET items == [i \in 1..Len(r.items) |-> JsonItem(r.items[i].gid)]
           text == IF r.items_key = "tasks"
                   THEN format_tasks_response_str(items, "json", r.title)
                   ELSE format_events_response_str(items, "json", r.total, r.has_more)
       IN text.tokens \o (IF r.note = NoNote THEN <<>> ELSE <<Tok("text", 0, r.note.tmpl)>>)
  ELSE <<Tok("text", 0, "")>>

\* json.loads(text) returns: the text begins with a JSON value and nothing
\* but white space follows it
json_decodable(toks) ==
  /\ toks # <<>>
  /\ \/ Head(toks).k \in {"num", "str", "lit"}
     \/ Head(toks) \in {Punct("["), Punct("{")}
  /\ json_parse_value(toks).rest = <<>>

\* the text is one JSON object whose count is the length of its items array
OneJsonObjectWithCount(toks, items_key) ==
  /\ json_decodable(toks)
  /\ json_loads(toks).t = "dict"
  /\ JsonGet(json_loads(toks), items_key) # <<>>
  /\ JsonGet(json_loads(toks), "count")
       = <<JNum(Len(JsonGet(json_loads(toks), items_key)[1].v))>>

\* C28: with response_format = json, every result of the five list tools
\* that is no error is as a whole one decodable JSON object whose count is the
\* length of its items array, for an upstream list that is empty, within the
\* size limit or over it.
C28_AsClaimed_JsonListResultIsOneObject ==
  JsonListResult => OneJsonObjectWithCount(ReturnedTokens(result),
                                           IF adapter = "asana" THEN "tasks" ELSE "events")

\* it is so for the lists within the limit: one or more items, no note
C28_WithinLimitIsOneObject ==
  (JsonListResult /\ result.kind = "report" /\ result.note = NoNote) =>
     OneJsonObjectWithCount(ReturnedTokens(result), result.items_key)

\* over the limit: the JSON text of the first half, then the Markdown note
C28_NoteAfterJson ==
  /\ JsonListResult
  /\ result.kind = "report"
  /\ result.note # NoNote
  /\ ~json_decodable(ReturnedTokens(result))
  /\ json_parse_value(ReturnedTokens(result)).rest = <<Tok("text", 0, result.note.tmpl)>>

\* an empty upstream list: a sentence, no JSON
C28_EmptyIsPlainText ==
  /\ JsonListResult
  /\ result.kind = "msg"
  /\ upstream[1].k = "ok"
  /\ ~json_decodable(ReturnedTokens(result))

\* ------------------------------------------- the total of the nearby search
\* google_places_nearby_search returned its report, uncut
NearbyReport ==
  /\ pc = "done"
  /\ tool = "google_places_nearby_search"
  /\ result.kind = "text"
  /\ result.notice = 0

\* C29: in every result of google_places_nearby_search the reported total is
\* the sum of the lengths of the per-type lists that are reported, for every
\* list of place_types, one that names a type more than once included.
C29_AsClaimed_TotalIsSumOfReportedLists ==
  NearbyReport => result.total_count = Len(dict_values(result.results_by_type))

\* it is so when no place type is named twice
C29_DistinctTypesTotalIsSum ==
  ( /\ NearbyReport
    /\ \A i, j \in 1..Len(params.place_types) :
          params.place_types[i] = params.place_types[j] => i = j ) =>
     result.total_count = Len(dict_values(result.results_by_type))

\* place_types = [hospital, hospital]: the second search replaces the list
\* of the first, and the total counts the places of both
C29_RepeatedTypeCountedTwice ==
  /\ NearbyReport
  /\ params.place_types = <<"hospital", "hospital">>
  /\ Len(result.results_by_type) = 1
  /\ Len(upstream[Len(upstream)].items) = Len(result.results_by_type[1].places)
  /\ result.total_count > Len(result.results_by_type[1].places)

\* ------------------------------------------- the size guard of the Places tools
\* the tools of the Places adapter that end with the size guard
PlacesSizeGuardTools ==
  {"google_places_nearby_search", "google_places_text_search", "google_places_get_details",
   "google_routes_compute_distance_matrix"}

\* one of them returned the text it built
PlacesSuccess ==
  /\ pc = "done"
  /\ tool \in PlacesSizeGuardTools
  /\ escaped = NoExc
  /\ caught = NoExc
  /\ result.kind = "text"

\* truncation_note of the tool, without the "\n\n" it begins with
TruncationNoteOf(t) ==
  CASE t = "google_places_nearby_search" ->
         "[Response truncated - exceeded {} character limit. Try reducing radius_miles or max_results.]"
    [] t = "google_places_text_search" ->
         "[Response truncated - exceeded {} character limit. Try reducing max_results.]"
    [] t = "google_places_get_details" ->
         "[Response truncated - exceeded {} character limit. Try setting include_reviews=False or reducing max_reviews.]"
    [] t = "google_routes_compute_distance_matrix" ->
         "[Response truncated - exceeded {} character limit. Try reducing the number of origins or destinations.]"

\* len(truncation_note)
TruncationNoteLen(t) == 2 + (Len(TruncationNoteOf(t)) - 2) + Digits(CHARACTER_LIMIT)

\* C30: every successful result of google_places_nearby_search,
\* google_places_text_search, google_places_get_details and
\* google_routes_compute_distance_matrix is at most CHARACTER_LIMIT characters
\* long: a text within the limit is returned unchanged, and a longer one is
\* cut to a prefix of itself followed by the tool's truncation note, the two
\* together exactly CHARACTER_LIMIT characters long.
C30_PlacesResultsWithinLimit ==
  PlacesSuccess =>
     /\ TextLen(result) <= CHARACTER_LIMIT
     /\ IF result.original <= CHARACTER_LIMIT
        THEN result.shown = result.original /\ result.notice = 0
        ELSE /\ result.notice = TruncationNoteLen(tool)
             /\ result.shown = CHARACTER_LIMIT - TruncationNoteLen(tool)
             /\ result.shown \in 0..result.original
             /\ TextLen(result) = CHARACTER_LIMIT

\* a text search whose report was longer than the limit came back as a
\* prefix and the note, CHARACTER_LIMIT characters in all
C30_Witness ==
  /\ PlacesSuccess
  /\ tool = "google_places_text_search"
  /\ result.original > CHARACTER_LIMIT
  /\ result.shown < result.original
  /\ result.notice = TruncationNoteLen("google_places_text_search")
  /\ TextLen(result) = CHARACTER_LIMIT

\* the details of a place with long reviews, cut in the same way
C30_DetailsCut ==
  /\ PlacesSuccess
  /\ tool = "google_places_get_details"
  /\ result.original > CHARACTER_LIMIT
  /\ TextLen(result) = CHARACTER_LIMIT

\* a text within the limit, returned as it was built
C30_WithinLimitUnchanged ==
  /\ PlacesSuccess
  /\ tool = "google_places_text_search"
  /\ result.original \in 1..CHARACTER_LIMIT
  /\ result.shown = result.original
  /\ result.notice = 0

====
